---- MODULE Spec2Model ----
(***************************************************************************)
(* A model of the D-Stability document model of GEOLib                     *)
(* (geolib/models/dstability/internal.py): the result routing of           *)
(* DStabilityStructure, the head lines and reference lines of a Waternet,  *)
(* the soils of the shared SoilCollection, the stages of the Case with     *)
(* their foreign keys, the condensed output of a result, the placement of  *)
(* a document, and the Soil of D-Foundations                               *)
(* (geolib/models/dfoundations/internal_soil.py).                          *)
(*                                                                         *)
(* Conventions.  Python's None is the string None for the Optional[str]    *)
(* fields and the empty tuple for the fields of the engineering-facing     *)
(* Soil (a set field v is the one-element tuple <<v>>).  A float is kept   *)
(* as the integer number of its hundredths (0.26 is 26, 19.3 is 1930).     *)
(* A method is an operator from the object it is called on and its         *)
(* arguments to the record [self, ret, err]: the object after the call,    *)
(* the value returned and the error raised (NoError when it returns).      *)
(***************************************************************************)
EXTENDS Integers, Sequences, FiniteSets, TLC

VARIABLES
    results,    \* DStabilityStructure: the nine result collections, by field name
    waternet,   \* DStabilityStructure.waternets[0]
    soils,      \* DStabilityStructure.soils, the shared SoilCollection
    structure,  \* DStabilityStructure: stages and the per-stage lists, by field name
    dfsoil,     \* a Soil of dfoundations: the empty tuple before it is constructed
    second,     \* a second Case, by its soils and waternet: the empty tuple before
    last        \* the last call: [op, args, ret, err]

vars == <<results, waternet, soils, structure, dfsoil, second, last>>

\* Python's None in a field of type Optional[str].
None == "None"

NoError == [kind |-> "none", what |-> "", key |-> ""]

ValueError(what, key) == [kind |-> "ValueError", what |-> what, key |-> key]

KeyError(key) == [kind |-> "KeyError", what |-> "missing key", key |-> key]

Call(op, args, ret, err) == [op |-> op, args |-> args, ret |-> ret, err |-> err]

Range(s) == {s[i] : i \in DOMAIN s}

(***************************************************************************)
(* Bounds of the model.                                                    *)
(***************************************************************************)
\* results appended to the result collections of the Case
MaxResults == 2

\* head lines added to the Waternet
MaxHeadLines == 2

\* reference lines added to the Waternet
MaxReferenceLines == 2

\* soils added to the SoilCollection after its seed soils
MaxAddedSoils == 2

\* stages of a parsed Case
MaxStages == 2

\* runs of the validator in a row
MaxRuns == 2

\* entries of the SlipPlane of a Spencer result
MaxSlipPlanePoints == 2

(***************************************************************************)
(* Result routing: DStabilityStructure.get_result_substructure.            *)
(***************************************************************************)
AnalysisType ==
    {"Bishop", "BishopBruteForce", "Spencer", "SpencerGenetic",
     "UpliftVan", "UpliftVanParticleSwarm"}

CalculationType == {"Design", "Deterministic", "Mean", "Probabilistic"}

\* The output parts of DStabilityStructure: the names of its nine result lists.
ResultCollections ==
    {"uplift_van_results", "uplift_van_particle_swarm_results",
     "uplift_van_reliability_results", "spencer_genetic_algorithm_results",
     "spencer_reliability_results", "spencer_results",
     "bishop_bruteforce_results", "bishop_reliability_results",
     "bishop_results"}

\* The dictionary built at the head of get_result_substructure; a value is
\* the list the Case's field refers to, named by the field.
result_types_mapping ==
    [a \in AnalysisType |->
        CASE a = "UpliftVan" ->
                [non_probabilistic |-> "uplift_van_results",
                 probabilistic |-> "uplift_van_reliability_results"]
          [] a = "UpliftVanParticleSwarm" ->
                [non_probabilistic |-> "uplift_van_particle_swarm_results",
                 probabilistic |-> "uplift_van_reliability_results"]
          [] a = "SpencerGenetic" ->
                [non_probabilistic |-> "spencer_genetic_algorithm_results",
                 probabilistic |-> "spencer_reliability_results"]
          [] a = "Spencer" ->
                [non_probabilistic |-> "spencer_results",
                 probabilistic |-> "spencer_reliability_results"]
          [] a = "BishopBruteForce" ->
                [non_probabilistic |-> "bishop_bruteforce_results",
                 probabilistic |-> "bishop_reliability_results"]
          [] a = "Bishop" ->
                [non_probabilistic |-> "bishop_results",
                 probabilistic |-> "bishop_reliability_results"]]

\* Faulty variants of get_result_substructure.
get_result_substructure_split_spencer(analysis_type, calculation_type) ==
    IF calculation_type = "Probabilistic" /\ analysis_type = "SpencerGenetic"
    THEN [ret |-> "spencer_genetic_algorithm_results", err |-> NoError]
    ELSE IF calculation_type = "Probabilistic"
    THEN [ret |-> result_types_mapping[analysis_type].probabilistic, err |-> NoError]
    ELSE [ret |-> result_types_mapping[analysis_type].non_probabilistic, err |-> NoError]

get_result_substructure_split_uplift(analysis_type, calculation_type) ==
    IF calculation_type = "Probabilistic" /\ analysis_type = "UpliftVanParticleSwarm"
    THEN [ret |-> "uplift_van_particle_swarm_results", err |-> NoError]
    ELSE IF calculation_type = "Probabilistic"
    THEN [ret |-> result_types_mapping[analysis_type].probabilistic, err |-> NoError]
    ELSE [ret |-> result_types_mapping[analysis_type].non_probabilistic, err |-> NoError]

get_result_substructure_mean_is_probabilistic(analysis_type, calculation_type) ==
    IF calculation_type \in {"Probabilistic", "Mean"}
    THEN [ret |-> result_types_mapping[analysis_type].probabilistic, err |-> NoError]
    ELSE [ret |-> result_types_mapping[analysis_type].non_probabilistic, err |-> NoError]

\* get_result_substructure: the list it returns, named by the Case's field;
\* a key the dictionary lacks raises KeyError.
get_result_substructure(analysis_type, calculation_type) ==
    IF analysis_type \notin DOMAIN result_types_mapping
    THEN [ret |-> None, err |-> KeyError(analysis_type)]
    ELSE IF calculation_type = "Probabilistic"
    THEN [ret |-> result_types_mapping[analysis_type].probabilistic, err |-> NoError]
    ELSE [ret |-> result_types_mapping[analysis_type].non_probabilistic, err |-> NoError]

TotalResults == Cardinality(UNION {Range(results[c]) : c \in ResultCollections})

\* A call of get_result_substructure.
GetResultSubstructure ==
    \E a \in AnalysisType, c \in CalculationType :
        LET r == get_result_substructure(a, c) IN
        /\ last' = Call("get_result_substructure", <<a, c>>, r.ret, r.err)
        /\ UNCHANGED <<results, waternet, soils, structure, dfsoil, second>>

\* Faulty variant of AppendResult: the lookup hands out a copy of the list,
\* and the result appended to it is lost to the Case.
AppendResult_to_copy ==
    \E a \in AnalysisType, c \in CalculationType :
        LET r == get_result_substructure(a, c)
            item == TotalResults + 1 IN
        /\ TotalResults < MaxResults
        /\ r.err = NoError
        /\ last' = Call("append_result", <<a, c>>, item, NoError)
        /\ UNCHANGED <<results, waternet, soils, structure, dfsoil, second>>

\* A caller appends a new result (numbered from 1) to the list that
\* get_result_substructure hands out.
AppendResult ==
    \E a \in AnalysisType, c \in CalculationType :
        LET r == get_result_substructure(a, c)
            item == TotalResults + 1 IN
        /\ TotalResults < MaxResults
        /\ r.err = NoError
        /\ results' = [results EXCEPT ![r.ret] = Append(@, item)]
        /\ last' = Call("append_result", <<a, c>>, item, NoError)
        /\ UNCHANGED <<waternet, soils, structure, dfsoil, second>>

(***************************************************************************)
(* Waternet: head lines and reference lines.                               *)
(***************************************************************************)
\* the ids, labels, notes and point lists the callers pass: h3 is an id
\* no head line is ever added with
HeadLineIds == {"h1", "h2"}

HeadLineRefs == HeadLineIds \cup {"h3"}

ReferenceLineIds == {"r1", "r2"}

Labels == {"label"}

Notes == {"notes"}

\* geolib.geometry.Point values, by their x and z
PointLists == {<<[x |-> 0, z |-> 100], [x |-> 500, z |-> 150]>>}

\* [PersistablePoint(X=p.x, Z=p.z) for p in points]
PersistablePoints(points) ==
    [i \in DOMAIN points |-> [X |-> points[i].x, Z |-> points[i].z]]

\* Waternet(): the defaults of its fields
WaternetDefault ==
    [Id |-> None, ContentVersion |-> None, PhreaticLineId |-> None,
     HeadLines |-> <<>>, ReferenceLines |-> <<>>, UnitWeightWater |-> 981]

has_head_line_id(self, head_line_id) ==
    head_line_id \in {self.HeadLines[i].Id : i \in DOMAIN self.HeadLines}

\* Faulty variant of add_head_line: the phreatic line id is not set.
add_head_line_no_phreatic(self, head_line_id, label, notes, points, is_phreatic_line) ==
    LET head_line == [Id |-> head_line_id, Label |-> label, Notes |-> notes,
                      Points |-> PersistablePoints(points)] IN
    [self |-> [self EXCEPT !.HeadLines = Append(@, head_line)],
     ret |-> head_line, err |-> NoError]

add_head_line(self, head_line_id, label, notes, points, is_phreatic_line) ==
    LET head_line == [Id |-> head_line_id, Label |-> label, Notes |-> notes,
                      Points |-> PersistablePoints(points)]
        appended == [self EXCEPT !.HeadLines = Append(@, head_line)] IN
    [self |-> IF is_phreatic_line
              THEN [appended EXCEPT !.PhreaticLineId = head_line.Id]
              ELSE appended,
     ret |-> head_line, err |-> NoError]

\* The reference line add_reference_line builds.
NewReferenceLine(reference_line_id, label, notes, points, bottom, top) ==
    [BottomHeadLineId |-> bottom, Id |-> reference_line_id, Label |-> label,
     Notes |-> notes, Points |-> PersistablePoints(points), TopHeadLineId |-> top]

\* Faulty variants of add_reference_line: the record is appended before the head
\* line ids are checked; the top head line id is not checked; no error.
add_reference_line_append_first(self, reference_line_id, label, notes, points, bottom_head_line_id, top_head_line_id) ==
    LET half == NewReferenceLine(reference_line_id, label, notes, points, None, None)
        full == NewReferenceLine(reference_line_id, label, notes, points,
                                 bottom_head_line_id, top_head_line_id) IN
    IF ~has_head_line_id(self, bottom_head_line_id)
    THEN [self |-> [self EXCEPT !.ReferenceLines = Append(@, half)], ret |-> None,
          err |-> ValueError("Unknown headline id for bottom_head_line_id",
                             bottom_head_line_id)]
    ELSE IF ~has_head_line_id(self, top_head_line_id)
    THEN [self |-> [self EXCEPT !.ReferenceLines = Append(@, half)], ret |-> None,
          err |-> ValueError("Unknown headline id for top_head_line_id",
                             top_head_line_id)]
    ELSE [self |-> [self EXCEPT !.ReferenceLines = Append(@, full)],
          ret |-> full, err |-> NoError]

add_reference_line_top_unchecked(self, reference_line_id, label, notes, points, bottom_head_line_id, top_head_line_id) ==
    LET full == NewReferenceLine(reference_line_id, label, notes, points,
                                 bottom_head_line_id, top_head_line_id) IN
    IF ~has_head_line_id(self, bottom_head_line_id)
    THEN [self |-> self, ret |-> None,
          err |-> ValueError("Unknown headline id for bottom_head_line_id",
                             bottom_head_line_id)]
    ELSE [self |-> [self EXCEPT !.ReferenceLines = Append(@, full)],
          ret |-> full, err |-> NoError]

add_reference_line_swapped(self, reference_line_id, label, notes, points, bottom_head_line_id, top_head_line_id) ==
    LET full == NewReferenceLine(reference_line_id, label, notes, points,
                                 top_head_line_id, bottom_head_line_id) IN
    IF ~has_head_line_id(self, bottom_head_line_id)
    THEN [self |-> self, ret |-> None,
          err |-> ValueError("Unknown headline id for bottom_head_line_id",
                             bottom_head_line_id)]
    ELSE IF ~has_head_line_id(self, top_head_line_id)
    THEN [self |-> self, ret |-> None,
          err |-> ValueError("Unknown headline id for top_head_line_id",
                             top_head_line_id)]
    ELSE [self |-> [self EXCEPT !.ReferenceLines = Append(@, full)],
          ret |-> full, err |-> NoError]

add_reference_line(self, reference_line_id, label, notes, points, bottom_head_line_id, top_head_line_id) ==
    LET full == NewReferenceLine(reference_line_id, label, notes, points,
                                 bottom_head_line_id, top_head_line_id) IN
    IF ~has_head_line_id(self, bottom_head_line_id)
    THEN [self |-> self, ret |-> None,
          err |-> ValueError("Unknown headline id for bottom_head_line_id",
                             bottom_head_line_id)]
    ELSE IF ~has_head_line_id(self, top_head_line_id)
    THEN [self |-> self, ret |-> None,
          err |-> ValueError("Unknown headline id for top_head_line_id",
                             top_head_line_id)]
    ELSE [self |-> [self EXCEPT !.ReferenceLines = Append(@, full)],
          ret |-> full, err |-> NoError]

\* A call of Waternet.add_head_line.
AddHeadLine ==
    \E id \in HeadLineIds, label \in Labels, notes \in Notes,
       points \in PointLists, phreatic \in BOOLEAN :
        LET r == add_head_line(waternet, id, label, notes, points, phreatic) IN
        /\ Len(waternet.HeadLines) < MaxHeadLines
        /\ waternet' = r.self
        /\ last' = Call("add_head_line",
                        [head_line_id |-> id, is_phreatic_line |-> phreatic],
                        r.ret, r.err)
        /\ UNCHANGED <<results, soils, structure, dfsoil, second>>

\* A call of Waternet.add_reference_line, returning or raising.
AddReferenceLine ==
    \E id \in ReferenceLineIds, label \in Labels, notes \in Notes,
       points \in PointLists, bottom \in HeadLineRefs, top \in HeadLineRefs :
        LET r == add_reference_line(waternet, id, label, notes, points, bottom, top) IN
        /\ Len(waternet.ReferenceLines) < MaxReferenceLines \/ r.err # NoError
        /\ waternet' = r.self
        /\ last' = Call("add_reference_line",
                        [reference_line_id |-> id, bottom_head_line_id |-> bottom,
                         top_head_line_id |-> top],
                        r.ret, r.err)
        /\ UNCHANGED <<results, soils, structure, dfsoil, second>>

(***************************************************************************)
(* SoilCollection: the persisted soils and add_soil, get_soil, edit_soil.  *)
(***************************************************************************)
\* PersistableStochasticParameter(): IsProbabilistic, Mean 1.0, StandardDeviation 0.0
PersistableStochasticParameter ==
    [IsProbabilistic |-> FALSE, Mean |-> 100, StandardDeviation |-> 0]

\* The fields of PersistableSoil, as declared.
PersistableSoilFields ==
    <<"Code", "Cohesion", "CohesionAndFrictionAngleCorrelated",
      "CohesionStochasticParameter", "Dilatancy", "DilatancyStochasticParameter",
      "FrictionAngle", "FrictionAngleStochasticParameter", "Id", "IsProbabilistic",
      "Name", "ShearStrengthModelTypeAbovePhreaticLevel",
      "ShearStrengthModelTypeBelowPhreaticLevel", "ShearStrengthRatio",
      "ShearStrengthRatioAndShearStrengthExponentCorrelated",
      "ShearStrengthRatioStochasticParameter", "StrengthIncreaseExponent",
      "StrengthIncreaseExponentStochasticParameter",
      "VolumetricWeightAbovePhreaticLevel", "VolumetricWeightBelowPhreaticLevel">>

\* PersistableSoil(): the persisted defaults.
PersistableSoil ==
    [Code |-> "",
     Cohesion |-> 0,
     CohesionAndFrictionAngleCorrelated |-> FALSE,
     CohesionStochasticParameter |-> PersistableStochasticParameter,
     Dilatancy |-> 0,
     DilatancyStochasticParameter |-> PersistableStochasticParameter,
     FrictionAngle |-> 0,
     FrictionAngleStochasticParameter |-> PersistableStochasticParameter,
     Id |-> "",
     IsProbabilistic |-> FALSE,
     Name |-> "",
     ShearStrengthModelTypeAbovePhreaticLevel |-> "CPhi",
     ShearStrengthModelTypeBelowPhreaticLevel |-> "Su",
     ShearStrengthRatio |-> 0,
     ShearStrengthRatioAndShearStrengthExponentCorrelated |-> FALSE,
     ShearStrengthRatioStochasticParameter |-> PersistableStochasticParameter,
     StrengthIncreaseExponent |-> 100,
     StrengthIncreaseExponentStochasticParameter |-> PersistableStochasticParameter,
     VolumetricWeightAbovePhreaticLevel |-> 0,
     VolumetricWeightBelowPhreaticLevel |-> 0]

\* One seed soil of SoilCollection.Soils: the keyword arguments its
\* constructor is given (above, below: the shear strength model types).
SeedSoil(id, name, code, cohesion, friction, ratio, above, below, exponent, vwa, vwb) ==
    [PersistableSoil EXCEPT
        !.Id = id, !.Name = name, !.Code = code, !.Cohesion = cohesion,
        !.FrictionAngle = friction, !.Dilatancy = 0, !.ShearStrengthRatio = ratio,
        !.ShearStrengthModelTypeAbovePhreaticLevel = above,
        !.ShearStrengthModelTypeBelowPhreaticLevel = below,
        !.StrengthIncreaseExponent = exponent,
        !.VolumetricWeightAbovePhreaticLevel = vwa,
        !.VolumetricWeightBelowPhreaticLevel = vwb]

\* SoilCollection(): ContentVersion unset and the default of Soils.
SoilCollection ==
    [ContentVersion |-> None,
     Soils |-> <<
        SeedSoil("2", "Embankment new", "H_Aa_ht_new", 700, 3000, 26, "CPhi", "Su", 90, 1930, 1930),
        SeedSoil("3", "Embankment old", "H_Aa_ht_old", 700, 3000, 26, "CPhi", "Su", 90, 1800, 1800),
        SeedSoil("4", "Clay, shallow", "H_Rk_k_shallow", 0, 0, 23, "Su", "Su", 90, 1480, 1480),
        SeedSoil("5", "Clay, deep", "H_Rk_k_deep", 0, 0, 23, "Su", "Su", 90, 1560, 1560),
        SeedSoil("6", "Organic clay", "H_Rk_ko", 0, 0, 24, "Su", "Su", 85, 1390, 1390),
        SeedSoil("7", "Peat, shallow", "H_vhv_v", 0, 0, 30, "Su", "Su", 90, 1010, 1010),
        SeedSoil("8", "Peat, deep", "H_vbv_v", 0, 0, 27, "Su", "Su", 90, 1100, 1100),
        SeedSoil("9", "Sand", "Sand", 0, 3000, 0, "CPhi", "CPhi", 0, 1800, 2000),
        SeedSoil("10", "Clay with silt", "P_Rk_k&s", 0, 0, 22, "Su", "Su", 90, 1800, 1800),
        SeedSoil("11", "Sand with clay", "H_Ro_z&k", 0, 0, 22, "Su", "Su", 90, 1800, 1800)
     >>]

\* The fields of the engineering-facing Soil, in the order dict(soil) lists
\* them: one per persisted field, and color, which has no persisted field.
SoilFields ==
    <<"code", "cohesion", "cohesion_and_friction_angle_correlated",
      "cohesion_stochastic_parameter", "dilatancy", "dilatancy_stochastic_parameter",
      "friction_angle", "friction_angle_stochastic_parameter", "id", "is_probabilistic",
      "name", "shear_strength_model_type_above_phreatic_level",
      "shear_strength_model_type_below_phreatic_level", "shear_strength_ratio",
      "shear_strength_ratio_and_shear_strength_exponent_correlated",
      "shear_strength_ratio_stochastic_parameter", "strength_increase_exponent",
      "strength_increase_exponent_stochastic_parameter",
      "volumetric_weight_above_phreatic_level",
      "volumetric_weight_below_phreatic_level", "color">>

\* geolib.utils.snake_to_camel on the names this model passes it: each
\* word of the name capitalised, the underscores dropped.
snake_to_camel(name) ==
    CASE name = "code" -> "Code"
      [] name = "cohesion" -> "Cohesion"
      [] name = "cohesion_and_friction_angle_correlated" ->
            "CohesionAndFrictionAngleCorrelated"
      [] name = "cohesion_stochastic_parameter" -> "CohesionStochasticParameter"
      [] name = "dilatancy" -> "Dilatancy"
      [] name = "dilatancy_stochastic_parameter" -> "DilatancyStochasticParameter"
      [] name = "friction_angle" -> "FrictionAngle"
      [] name = "friction_angle_stochastic_parameter" ->
            "FrictionAngleStochasticParameter"
      [] name = "id" -> "Id"
      [] name = "is_probabilistic" -> "IsProbabilistic"
      [] name = "name" -> "Name"
      [] name = "shear_strength_model_type_above_phreatic_level" ->
            "ShearStrengthModelTypeAbovePhreaticLevel"
      [] name = "shear_strength_model_type_below_phreatic_level" ->
            "ShearStrengthModelTypeBelowPhreaticLevel"
      [] name = "shear_strength_ratio" -> "ShearStrengthRatio"
      [] name = "shear_strength_ratio_and_shear_strength_exponent_correlated" ->
            "ShearStrengthRatioAndShearStrengthExponentCorrelated"
      [] name = "shear_strength_ratio_stochastic_parameter" ->
            "ShearStrengthRatioStochasticParameter"
      [] name = "strength_increase_exponent" -> "StrengthIncreaseExponent"
      [] name = "strength_increase_exponent_stochastic_parameter" ->
            "StrengthIncreaseExponentStochasticParameter"
      [] name = "volumetric_weight_above_phreatic_level" ->
            "VolumetricWeightAbovePhreaticLevel"
      [] name = "volumetric_weight_below_phreatic_level" ->
            "VolumetricWeightBelowPhreaticLevel"
      [] name = "color" -> "Color"
      [] name = "unit_weight" -> "UnitWeight"

\* geolib.utils.camel_to_snake on the names of the persisted fields: an
\* underscore before each capital but the first, all in lower case.
camel_to_snake(name) ==
    CASE name = "Code" -> "code"
      [] name = "Cohesion" -> "cohesion"
      [] name = "CohesionAndFrictionAngleCorrelated" ->
            "cohesion_and_friction_angle_correlated"
      [] name = "CohesionStochasticParameter" ->
            "cohesion_stochastic_parameter"
      [] name = "Dilatancy" -> "dilatancy"
      [] name = "DilatancyStochasticParameter" ->
            "dilatancy_stochastic_parameter"
      [] name = "FrictionAngle" -> "friction_angle"
      [] name = "FrictionAngleStochasticParameter" ->
            "friction_angle_stochastic_parameter"
      [] name = "Id" -> "id"
      [] name = "IsProbabilistic" -> "is_probabilistic"
      [] name = "Name" -> "name"
      [] name = "ShearStrengthModelTypeAbovePhreaticLevel" ->
            "shear_strength_model_type_above_phreatic_level"
      [] name = "ShearStrengthModelTypeBelowPhreaticLevel" ->
            "shear_strength_model_type_below_phreatic_level"
      [] name = "ShearStrengthRatio" -> "shear_strength_ratio"
      [] name = "ShearStrengthRatioAndShearStrengthExponentCorrelated" ->
            "shear_strength_ratio_and_shear_strength_exponent_correlated"
      [] name = "ShearStrengthRatioStochasticParameter" ->
            "shear_strength_ratio_stochastic_parameter"
      [] name = "StrengthIncreaseExponent" -> "strength_increase_exponent"
      [] name = "StrengthIncreaseExponentStochasticParameter" ->
            "strength_increase_exponent_stochastic_parameter"
      [] name = "VolumetricWeightAbovePhreaticLevel" ->
            "volumetric_weight_above_phreatic_level"
      [] name = "VolumetricWeightBelowPhreaticLevel" ->
            "volumetric_weight_below_phreatic_level"

\* Soil(**kwargs): the fields given are set, the others are None.
Soil(kwargs) ==
    [k \in Range(SoilFields) |-> IF k \in DOMAIN kwargs THEN <<kwargs[k]>> ELSE <<>>]

has_soilcode(self, code) ==
    code \in {self.Soils[i].Code : i \in DOMAIN self.Soils}

\* The loop of add_soil over dict(soil).items(), from its i-th item on.
RECURSIVE add_soil_items(_, _, _)
add_soil_items(ps, soil, i) ==
    IF i > Len(SoilFields) THEN ps
    ELSE LET k == SoilFields[i]
             v == soil[k] IN
         IF snake_to_camel(k) \in DOMAIN ps /\ v # <<>>
         THEN add_soil_items([ps EXCEPT ![snake_to_camel(k)] = v[1]], soil, i + 1)
         ELSE add_soil_items(ps, soil, i + 1)

\* Faulty variant of add_soil: the loop skips the first item of dict(soil).
add_soil_skip_first_item(self, soil) ==
    LET ps == add_soil_items(PersistableSoil, soil, 2) IN
    [self |-> [self EXCEPT !.Soils = Append(@, ps)], ret |-> ps, err |-> NoError]

add_soil(self, soil) ==
    LET ps == add_soil_items(PersistableSoil, soil, 1) IN
    [self |-> [self EXCEPT !.Soils = Append(@, ps)], ret |-> ps, err |-> NoError]

\* The index of the first soil of the collection with the code; 0 when
\* the loop over self.Soils ends without one.
first_with_code(self, code) ==
    IF \E i \in DOMAIN self.Soils : self.Soils[i].Code = code
    THEN CHOOSE i \in DOMAIN self.Soils :
            /\ self.Soils[i].Code = code
            /\ \A j \in 1..(i - 1) : self.Soils[j].Code # code
    ELSE 0

\* Faulty variant of first_with_code: the soils are compared by Id.
first_with_id(self, code) ==
    IF \E i \in DOMAIN self.Soils : self.Soils[i].Id = code
    THEN CHOOSE i \in DOMAIN self.Soils :
            /\ self.Soils[i].Id = code
            /\ \A j \in 1..(i - 1) : self.Soils[j].Id # code
    ELSE 0

\* {camel_to_snake(k) : v for k, v in dict(persistable_soil).items()}, over
\* the first n items: a later item replaces an earlier one of the same key.
RECURSIVE get_soil_items(_, _)
get_soil_items(ps, n) ==
    IF n = 0 THEN <<>>
    ELSE LET k == PersistableSoilFields[n] IN
         (camel_to_snake(k) :> ps[k]) @@ get_soil_items(ps, n - 1)

\* Faulty variant of get_soil: the soil is looked up by Id.
get_soil_by_id(self, code) ==
    LET i == first_with_id(self, code) IN
    IF i = 0
    THEN [self |-> self, ret |-> None,
          err |-> ValueError("Soil code not found in the SoilCollection", code)]
    ELSE [self |-> self,
          ret |-> Soil(get_soil_items(self.Soils[i], Len(PersistableSoilFields))),
          err |-> NoError]

get_soil(self, code) ==
    LET i == first_with_code(self, code) IN
    IF i = 0
    THEN [self |-> self, ret |-> None,
          err |-> ValueError("Soil code not found in the SoilCollection", code)]
    ELSE [self |-> self,
          ret |-> Soil(get_soil_items(self.Soils[i], Len(PersistableSoilFields))),
          err |-> NoError]

\* The loop of edit_soil over kwargs.items(), from its j-th item on: setattr
\* raises on a name that is no field of PersistableSoil, and the fields set
\* before it stay set.
RECURSIVE edit_soil_items(_, _, _)
edit_soil_items(ps, kwargs, j) ==
    IF j > Len(kwargs) THEN [ps |-> ps, err |-> NoError]
    ELSE LET k == kwargs[j][1]
             v == kwargs[j][2] IN
         IF snake_to_camel(k) \in DOMAIN ps
         THEN edit_soil_items([ps EXCEPT ![snake_to_camel(k)] = v], kwargs, j + 1)
         ELSE [ps |-> ps, err |-> ValueError("Unknown soil parameter", k)]

\* Faulty variants of edit_soil: a soil of an unknown code is created; a name
\* that is no persisted field is skipped.
edit_soil_create_missing(self, code, kwargs) ==
    LET i == first_with_code(self, code) IN
    IF i = 0
    THEN LET r == edit_soil_items([PersistableSoil EXCEPT !.Code = code], kwargs, 1) IN
         [self |-> [self EXCEPT !.Soils = Append(@, r.ps)],
          ret |-> IF r.err = NoError THEN r.ps ELSE None,
          err |-> r.err]
    ELSE LET r == edit_soil_items(self.Soils[i], kwargs, 1) IN
         [self |-> [self EXCEPT !.Soils[i] = r.ps],
          ret |-> IF r.err = NoError THEN r.ps ELSE None,
          err |-> r.err]

RECURSIVE edit_soil_items_skip_unknown(_, _, _)
edit_soil_items_skip_unknown(ps, kwargs, j) ==
    IF j > Len(kwargs) THEN [ps |-> ps, err |-> NoError]
    ELSE LET k == kwargs[j][1]
             v == kwargs[j][2] IN
         IF snake_to_camel(k) \in DOMAIN ps
         THEN edit_soil_items_skip_unknown([ps EXCEPT ![snake_to_camel(k)] = v], kwargs, j + 1)
         ELSE edit_soil_items_skip_unknown(ps, kwargs, j + 1)

edit_soil_skip_unknown(self, code, kwargs) ==
    LET i == first_with_code(self, code) IN
    IF i = 0
    THEN [self |-> self, ret |-> None,
          err |-> ValueError("Soil code not found in the SoilCollection", code)]
    ELSE LET r == edit_soil_items_skip_unknown(self.Soils[i], kwargs, 1) IN
         [self |-> [self EXCEPT !.Soils[i] = r.ps],
          ret |-> IF r.err = NoError THEN r.ps ELSE None,
          err |-> r.err]

edit_soil(self, code, kwargs) ==
    LET i == first_with_code(self, code) IN
    IF i = 0
    THEN [self |-> self, ret |-> None,
          err |-> ValueError("Soil code not found in the SoilCollection", code)]
    ELSE LET r == edit_soil_items(self.Soils[i], kwargs, 1) IN
         [self |-> [self EXCEPT !.Soils[i] = r.ps],
          ret |-> IF r.err = NoError THEN r.ps ELSE None,
          err |-> r.err]

\* The soils the callers add: a code (or none), a cohesion (or none) and a
\* color (or none).
AddedSoils ==
    {Soil(kw) : kw \in
        {[code |-> "X", cohesion |-> 1250], [code |-> "X", cohesion |-> -100],
         [code |-> "Sand", cohesion |-> 1250], [cohesion |-> 1250],
         [code |-> "X", cohesion |-> 1250, color |-> "red"]}}

\* The codes the callers look a soil up by: codes of soils, the Id of a
\* seed soil (X is the code of no soil until one is added with it).
LookupCodes == {"X", "Sand", "9"}

\* The keyword arguments the callers pass edit_soil, in their order.
Updates == {<<"cohesion", 500>>, <<"dilatancy", -100>>, <<"unit_weight", 1800>>}

EditKwargs ==
    {<<>>} \cup {<<u>> : u \in Updates}
    \cup {kw \in {<<u, w>> : u \in Updates, w \in Updates} :
            kw[1] # kw[2] /\ "cohesion" \in {kw[1][1], kw[2][1]}}

AddedSoilCount == Len(soils.Soils) - Len(SoilCollection.Soils)

\* A call of SoilCollection.add_soil.
AddSoil ==
    \E soil \in AddedSoils :
        LET r == add_soil(soils, soil) IN
        /\ AddedSoilCount < MaxAddedSoils
        /\ soils' = r.self
        /\ last' = Call("add_soil", soil, r.ret, r.err)
        /\ UNCHANGED <<results, waternet, structure, dfsoil, second>>

\* A call of SoilCollection.get_soil, returning or raising.
GetSoil ==
    \E code \in LookupCodes :
        LET r == get_soil(soils, code) IN
        /\ soils' = r.self
        /\ last' = Call("get_soil", code, r.ret, r.err)
        /\ UNCHANGED <<results, waternet, structure, dfsoil, second>>

\* A call of SoilCollection.edit_soil, returning or raising.
EditSoil ==
    \E code \in LookupCodes, kwargs \in EditKwargs :
        LET r == edit_soil(soils, code, kwargs) IN
        /\ soils' = r.self
        /\ last' = Call("edit_soil", [code |-> code, kwargs |-> kwargs], r.ret, r.err)
        /\ UNCHANGED <<results, waternet, structure, dfsoil, second>>

(***************************************************************************)
(* Stages: the input part of DStabilityStructure, has_stage, has_result    *)
(* and the validator.                                                      *)
(***************************************************************************)
\* The foreign keys of a Stage, in the order of its fields.  A Stage is kept
\* by these fields; Id, Label, Notes and ContentVersion refer to nothing.
StageForeignKeys ==
    <<"CalculationSettingsId", "DecorationsId", "GeometryId", "LoadsId",
      "ReinforcementsId", "ResultId", "SoilLayersId", "StateCorrelationsId",
      "StateId", "WaternetCreatorSettingsId", "WaternetId">>

\* Stage(): every field is Optional and unset.
Stage == [field \in Range(StageForeignKeys) |-> None]

\* The lists of the Case that hold one substructure per stage, in the order
\* of the fields of DStabilityStructure.  A substructure is kept by its Id.
PerStageLists ==
    <<"waternets", "waternetcreatorsettings", "states", "statecorrelations",
      "soillayers", "reinforcements", "loads", "decorations",
      "calculationsettings", "geometries">>

\* Faulty variant of DStabilityStructure: no Reinforcements.
DStabilityStructure_no_reinforcements ==
    [stages |-> <<Stage>>,
     waternets |-> <<None>>,
     waternetcreatorsettings |-> <<None>>,
     states |-> <<None>>,
     statecorrelations |-> <<None>>,
     soillayers |-> <<None>>,
     reinforcements |-> <<>>,
     loads |-> <<None>>,
     decorations |-> <<None>>,
     calculationsettings |-> <<None>>,
     geometries |-> <<None>>]

\* DStabilityStructure(): one stage, and one substructure in each per-stage
\* list, whose Id is unset but for Reinforcements(Id="1").
DStabilityStructure ==
    [stages |-> <<Stage>>,
     waternets |-> <<None>>,
     waternetcreatorsettings |-> <<None>>,
     states |-> <<None>>,
     statecorrelations |-> <<None>>,
     soillayers |-> <<None>>,
     reinforcements |-> <<"1">>,
     loads |-> <<None>>,
     decorations |-> <<None>>,
     calculationsettings |-> <<None>>,
     geometries |-> <<None>>]

\* has_stage: self.stages[stage_id] raises IndexError, or not.  Python
\* takes an index from -len to len - 1, a negative one counting from the end.
has_stage(self, stage_id) ==
    stage_id >= -Len(self.stages) /\ stage_id < Len(self.stages)

\* self.stages[stage_id] of Python, for an index in range.
stage_at(self, stage_id) ==
    IF stage_id < 0
    THEN self.stages[Len(self.stages) + stage_id + 1]
    ELSE self.stages[stage_id + 1]

\* Faulty variant of has_result: the ResultId of the first stage.
has_result_first_stage(self, stage_id) ==
    IF has_stage(self, stage_id)
    THEN (IF self.stages[1].ResultId = None THEN FALSE ELSE TRUE)
    ELSE FALSE

\* has_result.
has_result(self, stage_id) ==
    IF has_stage(self, stage_id)
    THEN (IF stage_at(self, stage_id).ResultId = None THEN FALSE ELSE TRUE)
    ELSE FALSE

\* The list of the Case in which the validator resolves a foreign key of a
\* Stage; ResultId is resolved in the nine result collections.
TargetCollection ==
    [field \in Range(StageForeignKeys) |->
        CASE field = "CalculationSettingsId" -> "calculationsettings"
          [] field = "DecorationsId" -> "decorations"
          [] field = "GeometryId" -> "geometries"
          [] field = "LoadsId" -> "loads"
          [] field = "ReinforcementsId" -> "reinforcements"
          [] field = "ResultId" -> "results"
          [] field = "SoilLayersId" -> "soillayers"
          [] field = "StateCorrelationsId" -> "statecorrelations"
          [] field = "StateId" -> "states"
          [] field = "WaternetCreatorSettingsId" -> "waternetcreatorsettings"
          [] field = "WaternetId" -> "waternets"]

\* The Id of a result: the result numbered n carries the Id "n".
ResultIds(outputs) ==
    {ToString(item) : item \in UNION {Range(outputs[c]) : c \in ResultCollections}}

\* The Ids a foreign key may take: self is the input part of the Case,
\* outputs its result collections.
target_ids(self, outputs, field) ==
    IF field = "ResultId"
    THEN ResultIds(outputs)
    ELSE Range(self[TargetCollection[field]]) \ {None}

\* Whether the foreign key field of the stage of index i dangles.
dangling(self, outputs, i, field) ==
    /\ self.stages[i + 1][field] # None
    /\ self.stages[i + 1][field] \notin target_ids(self, outputs, field)

Finding(i, field, value) == [stage |-> i, field |-> field, value |-> value]

\* The findings of the stage of index i for its foreign keys from the n-th.
RECURSIVE stage_findings(_, _, _, _)
stage_findings(self, outputs, i, n) ==
    IF n > Len(StageForeignKeys) THEN <<>>
    ELSE LET field == StageForeignKeys[n] IN
         (IF dangling(self, outputs, i, field)
          THEN <<Finding(i, field, self.stages[i + 1][field])>>
          ELSE <<>>) \o stage_findings(self, outputs, i, n + 1)

\* The findings of the stages from index i.
RECURSIVE findings(_, _, _)
findings(self, outputs, i) ==
    IF i >= Len(self.stages) THEN <<>>
    ELSE stage_findings(self, outputs, i, 1) \o findings(self, outputs, i + 1)

\* Faulty variants of validator: one that stops at the first finding, and
\* one that unsets the foreign keys it reports.
validator_first_finding(self, outputs) ==
    [self |-> self,
     ret |-> IF findings(self, outputs, 0) = <<>> THEN <<>>
             ELSE <<Head(findings(self, outputs, 0))>>,
     err |-> NoError]

validator_unsetting(self, outputs) ==
    [self |-> [self EXCEPT !.stages =
                  [k \in DOMAIN self.stages |->
                      [field \in Range(StageForeignKeys) |->
                          IF dangling(self, outputs, k - 1, field)
                          THEN None ELSE self.stages[k][field]]]],
     ret |-> findings(self, outputs, 0),
     err |-> NoError]

\* validator(), run: the report of all findings; the Case is left as it is.
validator(self, outputs) ==
    [self |-> self, ret |-> findings(self, outputs, 0), err |-> NoError]

\* The Id of the k-th substructure of the n-th per-stage list of a parsed
\* Case: 11 to 20 for the first stage, 21 to 30 for the second.
SubstructureId(n, k) == ToString(10 * k + n)

ListNumber(c) == CHOOSE n \in DOMAIN PerStageLists : PerStageLists[n] = c

\* An identifier no substructure carries.
AbsentId == "99"

\* A stage whose foreign keys all refer to the k-th substructures, and to
\* the result numbered 1.
ResolvedStage(k) ==
    [field \in Range(StageForeignKeys) |->
        IF field = "ResultId" THEN "1"
        ELSE SubstructureId(ListNumber(TargetCollection[field]), k)]

\* The stages read for the k-th stage: unset, resolved, resolved without a
\* result, every foreign key an absent identifier, resolved but for an
\* absent WaternetId or ResultId, and resolved but for a WaternetId that is
\* the Id of the stage's Geometry.
ParsedStages(k) ==
    {Stage,
     ResolvedStage(k),
     [ResolvedStage(k) EXCEPT !.ResultId = None],
     [field \in Range(StageForeignKeys) |-> AbsentId],
     [ResolvedStage(k) EXCEPT !.WaternetId = AbsentId],
     [ResolvedStage(k) EXCEPT !.ResultId = AbsentId],
     [ResolvedStage(k) EXCEPT !.WaternetId = ResolvedStage(k).GeometryId]}

\* The input part of a parsed Case of n stages.
ParsedStructure(stages) ==
    [c \in Range(PerStageLists) |-> [k \in DOMAIN stages |-> SubstructureId(ListNumber(c), k)]]
    @@ [stages |-> stages]

ParsedStructures ==
    UNION {{ParsedStructure(stages) :
               stages \in {s \in [1..n -> UNION {ParsedStages(k) : k \in 1..n}] :
                              \A k \in 1..n : s[k] \in ParsedStages(k)}} :
           n \in 0..MaxStages}

\* The result collections of a parsed Case: empty, or one Bishop result.
ParsedResults ==
    {[c \in ResultCollections |-> <<>>],
     [c \in ResultCollections |-> IF c = "bishop_results" THEN <<1>> ELSE <<>>]}

\* The stage indices asked for.
StageIndices == (-(MaxStages + 1)) .. MaxStages

\* A Case is assembled from a parsed directory: DStabilityStructure(stages=...,
\* waternets=..., bishop_results=...).
ParseCase ==
    /\ last.op = "init"
    /\ \E s \in ParsedStructures, r \in ParsedResults :
        /\ structure' = s
        /\ results' = r
        /\ last' = Call("parse", <<>>, None, NoError)
        /\ UNCHANGED <<waternet, soils, dfsoil, second>>

\* A call of has_stage.
HasStage ==
    \E i \in StageIndices :
        /\ last' = Call("has_stage", <<i>>, has_stage(structure, i), NoError)
        /\ UNCHANGED <<results, waternet, soils, structure, dfsoil, second>>

\* A call of has_result.
HasResult ==
    \E i \in StageIndices :
        /\ last' = Call("has_result", <<i>>, has_result(structure, i), NoError)
        /\ UNCHANGED <<results, waternet, soils, structure, dfsoil, second>>

\* validator() is called and the validator is run; the runs in a row are
\* numbered from 1.
Validator ==
    LET r == validator(structure, results)
        run == IF last.op = "validator" THEN last.args[1] + 1 ELSE 1 IN
    /\ run <= MaxRuns
    /\ structure' = r.self
    /\ last' = Call("validator", <<run>>, r.ret, r.err)
    /\ UNCHANGED <<results, waternet, soils, dfsoil, second>>

(***************************************************************************)
(* The condensed output of a result: get_slipcircle_output of the Bishop   *)
(* kinds and of the uplift-van kinds.  An Optional field of a result is    *)
(* the empty tuple when it is None and the one-element tuple of its value  *)
(* otherwise; Id is an Optional[str].                                      *)
(***************************************************************************)
AttributeError == [kind |-> "AttributeError", what |-> "", key |-> ""]

ValidationError == [kind |-> "ValidationError", what |-> "", key |-> ""]

\* BishopSlipCircleResult(x=..., z=..., radius=...): each field is a float,
\* for which None is not valid.
BishopSlipCircleResult(x, z, radius) ==
    IF x = <<>> \/ z = <<>> \/ radius = <<>>
    THEN [ret |-> None, err |-> ValidationError]
    ELSE [ret |-> [x |-> x[1], z |-> z[1], radius |-> radius[1]], err |-> NoError]

\* UpliftVanSlipCircleResult(x_left=..., ..., z_tangent=...), likewise.
UpliftVanSlipCircleResult(x_left, z_left, x_right, z_right, z_tangent) ==
    IF x_left = <<>> \/ z_left = <<>> \/ x_right = <<>> \/ z_right = <<>> \/ z_tangent = <<>>
    THEN [ret |-> None, err |-> ValidationError]
    ELSE [ret |-> [x_left |-> x_left[1], z_left |-> z_left[1],
                   x_right |-> x_right[1], z_right |-> z_right[1],
                   z_tangent |-> z_tangent[1]],
          err |-> NoError]

\* Faulty variant of bishop_slipcircle: x and z taken from each other.
bishop_slipcircle_swapped(self) ==
    IF self.Circle = <<>> THEN [ret |-> None, err |-> AttributeError]
    ELSE IF self.Circle[1].Center = <<>> THEN [ret |-> None, err |-> AttributeError]
    ELSE BishopSlipCircleResult(self.Circle[1].Center[1].Z,
                                self.Circle[1].Center[1].X,
                                self.Circle[1].Radius)

\* The try of get_slipcircle_output of a Bishop kind: self.Circle.Center.X,
\* self.Circle.Center.Z and self.Circle.Radius are read, an attribute of
\* None raising AttributeError, and the summary is built.
bishop_slipcircle(self) ==
    IF self.Circle = <<>> THEN [ret |-> None, err |-> AttributeError]
    ELSE IF self.Circle[1].Center = <<>> THEN [ret |-> None, err |-> AttributeError]
    ELSE BishopSlipCircleResult(self.Circle[1].Center[1].X,
                                self.Circle[1].Center[1].Z,
                                self.Circle[1].Radius)

\* Faulty variant of upliftvan_slipcircle: the two centers taken from each
\* other.
upliftvan_slipcircle_swapped(self) ==
    IF self.LeftCenter = <<>> THEN [ret |-> None, err |-> AttributeError]
    ELSE IF self.RightCenter = <<>> THEN [ret |-> None, err |-> AttributeError]
    ELSE UpliftVanSlipCircleResult(self.RightCenter[1].X, self.RightCenter[1].Z,
                                   self.LeftCenter[1].X, self.LeftCenter[1].Z,
                                   self.TangentLine)

\* The try of get_slipcircle_output of an uplift-van kind.
upliftvan_slipcircle(self) ==
    IF self.LeftCenter = <<>> THEN [ret |-> None, err |-> AttributeError]
    ELSE IF self.RightCenter = <<>> THEN [ret |-> None, err |-> AttributeError]
    ELSE UpliftVanSlipCircleResult(self.LeftCenter[1].X, self.LeftCenter[1].Z,
                                   self.RightCenter[1].X, self.RightCenter[1].Z,
                                   self.TangentLine)

\* except (ValidationError, AttributeError): raise ValueError(f"Slipcircle
\* not available for {self.__class__.__name__} with id {self.Id}").
slipcircle_or_error(r, class, id) ==
    IF r.err \in {ValidationError, AttributeError}
    THEN [ret |-> None, err |-> ValueError("Slipcircle not available for " \o class, id)]
    ELSE r

\* get_slipcircle_output of each of the six classes.
BishopResult_get_slipcircle_output(self) ==
    slipcircle_or_error(bishop_slipcircle(self), "BishopResult", self.Id)

BishopBruteForceResult_get_slipcircle_output(self) ==
    slipcircle_or_error(bishop_slipcircle(self), "BishopBruteForceResult", self.Id)

BishopReliabilityResult_get_slipcircle_output(self) ==
    slipcircle_or_error(bishop_slipcircle(self), "BishopReliabilityResult", self.Id)

UpliftVanResult_get_slipcircle_output(self) ==
    slipcircle_or_error(upliftvan_slipcircle(self), "UpliftVanResult", self.Id)

UpliftVanParticleSwarmResult_get_slipcircle_output(self) ==
    slipcircle_or_error(upliftvan_slipcircle(self), "UpliftVanParticleSwarmResult", self.Id)

UpliftVanReliabilityResult_get_slipcircle_output(self) ==
    slipcircle_or_error(upliftvan_slipcircle(self), "UpliftVanReliabilityResult", self.Id)

BishopKinds == {"BishopResult", "BishopBruteForceResult", "BishopReliabilityResult"}

UpliftVanKinds ==
    {"UpliftVanResult", "UpliftVanParticleSwarmResult", "UpliftVanReliabilityResult"}

\* self.get_slipcircle_output() for self of the given class.
get_slipcircle_output(class, self) ==
    CASE class = "BishopResult" -> BishopResult_get_slipcircle_output(self)
      [] class = "BishopBruteForceResult" -> BishopBruteForceResult_get_slipcircle_output(self)
      [] class = "BishopReliabilityResult" -> BishopReliabilityResult_get_slipcircle_output(self)
      [] class = "UpliftVanResult" -> UpliftVanResult_get_slipcircle_output(self)
      [] class = "UpliftVanParticleSwarmResult" ->
             UpliftVanParticleSwarmResult_get_slipcircle_output(self)
      [] class = "UpliftVanReliabilityResult" ->
             UpliftVanReliabilityResult_get_slipcircle_output(self)

\* The results read: a float field is unset or one of a few values (1.0 is
\* 100), a point is unset or has two such fields, Id is unset or "7".
ResultDocIds == {None, "7"}

OptionalFloat(values) == {<<>>} \cup {<<v>> : v \in values}

OptionalPoint(xs, zs) ==
    {<<>>} \cup {<<[X |-> x, Z |-> z]>> : x \in OptionalFloat(xs), z \in OptionalFloat(zs)}

OptionalCircle ==
    {<<>>} \cup {<<[Center |-> center, Radius |-> radius]>> :
                    center \in OptionalPoint({100, 200}, {100, 200}),
                    radius \in OptionalFloat({300})}

BishopDocs == [Id : ResultDocIds, Circle : OptionalCircle]

UpliftVanDocs ==
    [Id : ResultDocIds,
     LeftCenter : OptionalPoint({100}, {200}),
     RightCenter : OptionalPoint({300}, {400}),
     TangentLine : OptionalFloat({500})]

\* A call of get_slipcircle_output on a result of a Bishop kind.
BishopGetSlipcircleOutput ==
    \E class \in BishopKinds, self \in BishopDocs :
        LET r == get_slipcircle_output(class, self) IN
        /\ last' = Call("get_slipcircle_output", <<class, self>>, r.ret, r.err)
        /\ UNCHANGED <<results, waternet, soils, structure, dfsoil, second>>

\* A call of get_slipcircle_output on a result of an uplift-van kind.
UpliftVanGetSlipcircleOutput ==
    \E class \in UpliftVanKinds, self \in UpliftVanDocs :
        LET r == get_slipcircle_output(class, self) IN
        /\ last' = Call("get_slipcircle_output", <<class, self>>, r.ret, r.err)
        /\ UNCHANGED <<results, waternet, soils, structure, dfsoil, second>>

(***************************************************************************)
(* The condensed output of a Spencer kind: get_slipplane_output.           *)
(* SlipPlane is Optional: the empty tuple when None, else the one-element  *)
(* tuple of a list of Optional points.                                     *)
(***************************************************************************)
TypeError == [kind |-> "TypeError", what |-> "", key |-> ""]

\* Point(x=..., z=...) of geolib.geometry: x and z are floats, for which
\* None is not valid; of its fields only x and z are kept.
Point(x, z) ==
    IF x = <<>> \/ z = <<>>
    THEN [ret |-> None, err |-> ValidationError]
    ELSE [ret |-> [x |-> x[1], z |-> z[1]], err |-> NoError]

\* [Point(x=p.X, z=p.Z) for p in plane]: the points in order; the first
\* entry that fails ends it, an attribute of None raising AttributeError.
RECURSIVE slipplane_points(_)
slipplane_points(plane) ==
    IF plane = <<>> THEN [ret |-> <<>>, err |-> NoError]
    ELSE IF Head(plane) = <<>> THEN [ret |-> None, err |-> AttributeError]
    ELSE LET p == Point(Head(plane)[1].X, Head(plane)[1].Z) IN
         IF p.err # NoError THEN p
         ELSE LET rest == slipplane_points(Tail(plane)) IN
              IF rest.err # NoError THEN rest
              ELSE [ret |-> <<p.ret>> \o rest.ret, err |-> NoError]

Reverse(s) == [i \in DOMAIN s |-> s[Len(s) + 1 - i]]

\* Faulty variant of spencer_slipplane: the points in reverse order.
spencer_slipplane_reversed(self) ==
    IF self.SlipPlane = <<>> THEN [ret |-> None, err |-> TypeError]
    ELSE LET r == slipplane_points(self.SlipPlane[1]) IN
         IF r.err # NoError THEN r
         ELSE [ret |-> [slipplane |-> Reverse(r.ret)], err |-> NoError]

\* The try of get_slipplane_output: iterating over None raises TypeError.
spencer_slipplane(self) ==
    IF self.SlipPlane = <<>> THEN [ret |-> None, err |-> TypeError]
    ELSE LET r == slipplane_points(self.SlipPlane[1]) IN
         IF r.err # NoError THEN r
         ELSE [ret |-> [slipplane |-> r.ret], err |-> NoError]

\* except (ValidationError, TypeError): raise ValueError(f"Slip plane not
\* available for {self.__class__.__name__} with id {self.Id}"); any other
\* error leaves the method as it is.
slipplane_or_error(r, class, id) ==
    IF r.err \in {ValidationError, TypeError}
    THEN [ret |-> None, err |-> ValueError("Slip plane not available for " \o class, id)]
    ELSE r

\* get_slipplane_output of each of the three classes.
SpencerResult_get_slipplane_output(self) ==
    slipplane_or_error(spencer_slipplane(self), "SpencerResult", self.Id)

SpencerGeneticAlgorithmResult_get_slipplane_output(self) ==
    slipplane_or_error(spencer_slipplane(self), "SpencerGeneticAlgorithmResult", self.Id)

SpencerReliabilityResult_get_slipplane_output(self) ==
    slipplane_or_error(spencer_slipplane(self), "SpencerReliabilityResult", self.Id)

SpencerKinds ==
    {"SpencerResult", "SpencerGeneticAlgorithmResult", "SpencerReliabilityResult"}

\* self.get_slipplane_output() for self of the given class.
get_slipplane_output(class, self) ==
    CASE class = "SpencerResult" -> SpencerResult_get_slipplane_output(self)
      [] class = "SpencerGeneticAlgorithmResult" ->
             SpencerGeneticAlgorithmResult_get_slipplane_output(self)
      [] class = "SpencerReliabilityResult" ->
             SpencerReliabilityResult_get_slipplane_output(self)

\* The slip planes read: None, or a list of up to MaxSlipPlanePoints
\* entries, each None, one of two points, or a point without its X.
SlipPlaneEntries ==
    {<<>>,
     <<[X |-> <<100>>, Z |-> <<300>>]>>,
     <<[X |-> <<200>>, Z |-> <<300>>]>>,
     <<[X |-> <<>>, Z |-> <<300>>]>>}

OptionalSlipPlane ==
    {<<>>} \cup {<<plane>> : plane \in UNION {[1..n -> SlipPlaneEntries] : n \in 0..MaxSlipPlanePoints}}

SpencerDocs == [Id : ResultDocIds, SlipPlane : OptionalSlipPlane]

\* A call of get_slipplane_output on a result of a Spencer kind.
SpencerGetSlipplaneOutput ==
    \E class \in SpencerKinds, self \in SpencerDocs :
        LET r == get_slipplane_output(class, self) IN
        /\ last' = Call("get_slipplane_output", <<class, self>>, r.ret, r.err)
        /\ UNCHANGED <<results, waternet, soils, structure, dfsoil, second>>

(***************************************************************************)
(* The placement of a document: structure_name and structure_group of the  *)
(* subclasses of DStabilitySubStructure.                                   *)
(***************************************************************************)
\* The subclasses of DStabilitySubStructure, by their declared names.
SubStructures ==
    {"Waternet", "WaternetCreatorSettings", "State", "StateCorrelation", "Stage",
     "SoilLayerCollection", "SoilCorrelation", "SoilCollection", "Reinforcements",
     "ProjectInfo", "NailProperties", "Loads", "Geometry", "Decorations",
     "CalculationSettings",
     "BishopBruteForceResult", "BishopReliabilityResult", "BishopResult",
     "SpencerGeneticAlgorithmResult", "SpencerReliabilityResult", "SpencerResult",
     "UpliftVanParticleSwarmResult", "UpliftVanReliabilityResult", "UpliftVanResult"}

\* The classes of DStabilityResult.
ResultKinds == BishopKinds \cup SpencerKinds \cup UpliftVanKinds

\* str.lower on the letters of the class names.
LowerLetter ==
    [A |-> "a", B |-> "b", C |-> "c", D |-> "d", E |-> "e", F |-> "f", G |-> "g",
     H |-> "h", I |-> "i", J |-> "j", K |-> "k", L |-> "l", M |-> "m", N |-> "n",
     O |-> "o", P |-> "p", Q |-> "q", R |-> "r", S |-> "s", T |-> "t", U |-> "u",
     V |-> "v", W |-> "w", X |-> "x", Y |-> "y", Z |-> "z"]

\* The letters of a class name, one string each.
Letters ==
    [cls \in SubStructures |->
        CASE cls = "Waternet" -> <<"W","a","t","e","r","n","e","t">>
          [] cls = "WaternetCreatorSettings" ->
                 <<"W","a","t","e","r","n","e","t","C","r","e","a","t","o","r",
                   "S","e","t","t","i","n","g","s">>
          [] cls = "State" -> <<"S","t","a","t","e">>
          [] cls = "StateCorrelation" ->
                 <<"S","t","a","t","e","C","o","r","r","e","l","a","t","i","o","n">>
          [] cls = "Stage" -> <<"S","t","a","g","e">>
          [] cls = "SoilLayerCollection" ->
                 <<"S","o","i","l","L","a","y","e","r","C","o","l","l","e","c","t","i","o","n">>
          [] cls = "SoilCorrelation" ->
                 <<"S","o","i","l","C","o","r","r","e","l","a","t","i","o","n">>
          [] cls = "SoilCollection" ->
                 <<"S","o","i","l","C","o","l","l","e","c","t","i","o","n">>
          [] cls = "Reinforcements" ->
                 <<"R","e","i","n","f","o","r","c","e","m","e","n","t","s">>
          [] cls = "ProjectInfo" -> <<"P","r","o","j","e","c","t","I","n","f","o">>
          [] cls = "NailProperties" ->
                 <<"N","a","i","l","P","r","o","p","e","r","t","i","e","s">>
          [] cls = "Loads" -> <<"L","o","a","d","s">>
          [] cls = "Geometry" -> <<"G","e","o","m","e","t","r","y">>
          [] cls = "Decorations" -> <<"D","e","c","o","r","a","t","i","o","n","s">>
          [] cls = "CalculationSettings" ->
                 <<"C","a","l","c","u","l","a","t","i","o","n","S","e","t","t","i","n","g","s">>
          [] cls = "BishopBruteForceResult" ->
                 <<"B","i","s","h","o","p","B","r","u","t","e","F","o","r","c","e",
                   "R","e","s","u","l","t">>
          [] cls = "BishopReliabilityResult" ->
                 <<"B","i","s","h","o","p","R","e","l","i","a","b","i","l","i","t","y",
                   "R","e","s","u","l","t">>
          [] cls = "BishopResult" -> <<"B","i","s","h","o","p","R","e","s","u","l","t">>
          [] cls = "SpencerGeneticAlgorithmResult" ->
                 <<"S","p","e","n","c","e","r","G","e","n","e","t","i","c",
                   "A","l","g","o","r","i","t","h","m","R","e","s","u","l","t">>
          [] cls = "SpencerReliabilityResult" ->
                 <<"S","p","e","n","c","e","r","R","e","l","i","a","b","i","l","i","t","y",
                   "R","e","s","u","l","t">>
          [] cls = "SpencerResult" -> <<"S","p","e","n","c","e","r","R","e","s","u","l","t">>
          [] cls = "UpliftVanParticleSwarmResult" ->
                 <<"U","p","l","i","f","t","V","a","n","P","a","r","t","i","c","l","e",
                   "S","w","a","r","m","R","e","s","u","l","t">>
          [] cls = "UpliftVanReliabilityResult" ->
                 <<"U","p","l","i","f","t","V","a","n","R","e","l","i","a","b","i","l","i","t","y",
                   "R","e","s","u","l","t">>
          [] cls = "UpliftVanResult" ->
                 <<"U","p","l","i","f","t","V","a","n","R","e","s","u","l","t">>]

\* str.lower(class_name): each upper-case letter by its lower-case one.
RECURSIVE lower(_)
lower(letters) ==
    IF letters = <<>> THEN ""
    ELSE (IF Head(letters) \in DOMAIN LowerLetter
          THEN LowerLetter[Head(letters)]
          ELSE Head(letters)) \o lower(Tail(letters))

\* DStabilitySubStructure.structure_name: the lower-cased class name (a
\* class name has no dot, so the split leaves it whole).
LoweredNames == [cls \in SubStructures |-> lower(Letters[cls])]

default_structure_name(cls) == LoweredNames[cls]

\* The classes that define structure_name, with what it returns.
structure_name_overrides ==
    [State |-> "states",
     StateCorrelation |-> "statecorrelations",
     Stage |-> "stage",
     SoilLayerCollection |-> "soillayers",
     SoilCorrelation |-> "soilcorrelations",
     SoilCollection |-> "soils",
     NailProperties |-> "nailpropertiesforsoils"]

\* The classes that define structure_group, with what it returns.
structure_group_overrides ==
    [Waternet |-> "waternets",
     WaternetCreatorSettings |-> "waternetcreatorsettings",
     State |-> "states",
     StateCorrelation |-> "statecorrelations",
     Stage |-> "stages",
     SoilLayerCollection |-> "soillayers",
     Geometry |-> "geometries",
     BishopBruteForceResult |-> "results/bishopbruteforce",
     BishopReliabilityResult |-> "results/bishopreliability",
     BishopResult |-> "results/bishop",
     SpencerGeneticAlgorithmResult |-> "results/spencergeneticalgorithm",
     SpencerReliabilityResult |-> "results/spencerreliability",
     SpencerResult |-> "results/spencer",
     UpliftVanParticleSwarmResult |-> "results/upliftvanparticleswarm",
     UpliftVanReliabilityResult |-> "results/upliftvanreliability",
     UpliftVanResult |-> "results/upliftvan"]

\* Faulty variant of structure_name: the class name as declared.
structure_name_as_declared(cls) ==
    IF cls \in DOMAIN structure_name_overrides
    THEN structure_name_overrides[cls]
    ELSE cls

\* cls.structure_name().
structure_name(cls) ==
    IF cls \in DOMAIN structure_name_overrides
    THEN structure_name_overrides[cls]
    ELSE default_structure_name(cls)

\* Faulty variant of structure_group: every result in the group "results".
structure_group_one_results(cls) ==
    IF cls \in ResultKinds THEN "results"
    ELSE IF cls \in DOMAIN structure_group_overrides
    THEN structure_group_overrides[cls]
    ELSE structure_name(cls)

\* cls.structure_group(): DStabilitySubStructure returns cls.structure_name().
structure_group(cls) ==
    IF cls \in DOMAIN structure_group_overrides
    THEN structure_group_overrides[cls]
    ELSE structure_name(cls)

\* A call of structure_name on a class.
StructureName ==
    \E cls \in SubStructures :
        /\ last' = Call("structure_name", <<cls>>, structure_name(cls), NoError)
        /\ UNCHANGED <<results, waternet, soils, structure, dfsoil, second>>

\* A call of structure_group on a class.
StructureGroup ==
    \E cls \in SubStructures :
        /\ last' = Call("structure_group", <<cls>>, structure_group(cls), NoError)
        /\ UNCHANGED <<results, waternet, soils, structure, dfsoil, second>>

(***************************************************************************)
(* The Soil of D-Foundations (dfoundations/internal_soil.py), a pydantic   *)
(* model with validate_assignment.  Of its fields the name and six of the  *)
(* confloat fields are kept; a float is the integer of its hundredths.     *)
(***************************************************************************)
\* The fields kept, in the order of their declaration.
DFoundationsSoilFields ==
    <<"name", "soilgamdry", "soilminvoidratio", "soilmaxvoidratio", "soilcohesion",
      "soilphi", "soilcu">>

\* confloat(ge=..., le=...) of each float field.
DFoundationsSoilRanges ==
    [soilgamdry |-> [ge |-> 0, le |-> 10000],
     soilminvoidratio |-> [ge |-> 0, le |-> 100],
     soilmaxvoidratio |-> [ge |-> 0, le |-> 100],
     soilcohesion |-> [ge |-> 0, le |-> 100000],
     soilphi |-> [ge |-> 0, le |-> 8900],
     soilcu |-> [ge |-> 0, le |-> 100000]]

\* The defaults; name, soilphi and soilcu have none and are required.
DFoundationsSoilDefaults ==
    [soilgamdry |-> 2000, soilminvoidratio |-> 40, soilmaxvoidratio |-> 80,
     soilcohesion |-> 3000]

FieldValidationError(field, what) == [kind |-> "ValidationError", what |-> what, key |-> field]

\* The validation of a value for a field: name is a constr(min_length=1,
\* max_length=25), the others are within their range.
field_error(field, value) ==
    IF field = "name"
    THEN (IF Len(value) < 1 THEN FieldValidationError(field, "min_length")
          ELSE IF Len(value) > 25 THEN FieldValidationError(field, "max_length")
          ELSE NoError)
    ELSE IF value < DFoundationsSoilRanges[field].ge THEN FieldValidationError(field, "ge")
    ELSE IF value > DFoundationsSoilRanges[field].le THEN FieldValidationError(field, "le")
    ELSE NoError

\* The first error among the fields from the n-th: a given value is
\* validated, a missing one needs a default.
RECURSIVE first_field_error(_, _)
first_field_error(kwargs, n) ==
    IF n > Len(DFoundationsSoilFields) THEN NoError
    ELSE LET field == DFoundationsSoilFields[n]
             error == IF field \in DOMAIN kwargs THEN field_error(field, kwargs[field])
                      ELSE IF field \in DOMAIN DFoundationsSoilDefaults THEN NoError
                      ELSE FieldValidationError(field, "field required") IN
         IF error # NoError THEN error ELSE first_field_error(kwargs, n + 1)

\* Soil.__init__ before super().__init__: without a name, the first key
\* that is no field gives the name, key + value, and is taken out.
with_name(kwargs) ==
    LET unknown == DOMAIN kwargs \ Range(DFoundationsSoilFields) IN
    IF "name" \in DOMAIN kwargs \/ unknown = {} THEN kwargs
    ELSE LET key == CHOOSE k \in unknown : TRUE IN
         [f \in (DOMAIN kwargs \ {key}) \cup {"name"} |->
             IF f = "name" THEN key \o kwargs[key] ELSE kwargs[f]]

\* Soil(**kwargs).
DFoundationsSoil(kwargs) ==
    LET named == with_name(kwargs)
        error == first_field_error(named, 1) IN
    IF error # NoError THEN [ret |-> None, err |-> error]
    ELSE [ret |-> [f \in Range(DFoundationsSoilFields) |->
                      IF f \in DOMAIN named THEN named[f] ELSE DFoundationsSoilDefaults[f]],
          err |-> NoError]

\* Faulty variant of DFoundationsSoil_setattr: Config without
\* validate_assignment.
DFoundationsSoil_setattr_unvalidated(self, field, value) ==
    [self |-> [self EXCEPT ![field] = value], ret |-> None, err |-> NoError]

\* setattr(soil, field, value) under Config.validate_assignment: the value
\* is validated first and set only when valid.
DFoundationsSoil_setattr(self, field, value) ==
    IF field_error(field, value) # NoError
    THEN [self |-> self, ret |-> None, err |-> field_error(field, value)]
    ELSE [self |-> [self EXCEPT ![field] = value], ret |-> None, err |-> NoError]

\* The values given to soilphi and to the two void ratios: below the range,
\* its two ends, and above it.
DFoundationsSoilValues ==
    [soilphi |-> {-1, 0, 8900, 8901},
     soilminvoidratio |-> {-1, 0, 100, 101},
     soilmaxvoidratio |-> {-1, 0, 100, 101}]

\* The keyword arguments a Soil is constructed with.
DFoundationsSoilKwargs ==
    {[name |-> "Zand", soilphi |-> 3000, soilcu |-> 0],
     [name |-> "Zand", soilcu |-> 0],
     [Zand |-> "_los", soilphi |-> 3000, soilcu |-> 0],
     [soilphi |-> 3000, soilcu |-> 0]}
    \cup {[name |-> "Klei", soilphi |-> v, soilcu |-> 0] : v \in DFoundationsSoilValues.soilphi}
    \cup {[name |-> "Klei", soilphi |-> 3000, soilcu |-> 0, soilminvoidratio |-> v] :
             v \in DFoundationsSoilValues.soilminvoidratio}
    \cup {[name |-> "Klei", soilphi |-> 3000, soilcu |-> 0, soilmaxvoidratio |-> v] :
             v \in DFoundationsSoilValues.soilmaxvoidratio}

\* A Soil is constructed; a failed construction gives no object.
ConstructSoil ==
    \E kwargs \in DFoundationsSoilKwargs :
        LET r == DFoundationsSoil(kwargs) IN
        /\ dfsoil' = IF r.err = NoError THEN <<r.ret>> ELSE dfsoil
        /\ last' = Call("Soil", <<kwargs>>, None, r.err)
        /\ UNCHANGED <<results, waternet, soils, structure, second>>

\* A field of the Soil is assigned.
SetSoilField ==
    /\ dfsoil # <<>>
    /\ \E field \in DOMAIN DFoundationsSoilValues :
          \E value \in DFoundationsSoilValues[field] :
              LET r == DFoundationsSoil_setattr(dfsoil[1], field, value) IN
              /\ dfsoil' = <<r.self>>
              /\ last' = Call("setattr", <<field, value>>, None, r.err)
              /\ UNCHANGED <<results, waternet, soils, structure, second>>

(***************************************************************************)
(* Two Cases: the defaults of the fields of a new Case while another Case  *)
(* is in use.                                                              *)
(***************************************************************************)
\* The value a field of a new instance takes when none is given: a copy of
\* the default declared, whatever the instances constructed before hold.
field_default_shared(declared, held) == held

field_default(declared, held) == declared

\* DStabilityStructure() is constructed while the first Case is in use.
ConstructCase ==
    /\ second' = <<[soils |-> field_default(SoilCollection, soils),
                   waternet |-> field_default(WaternetDefault, waternet)]>>
    /\ last' = Call("DStabilityStructure", <<>>, None, NoError)
    /\ UNCHANGED <<results, waternet, soils, structure, dfsoil>>

\* The calls on the first Case: one soil added, soils edited, one head line
\* and one reference line added.
FirstCaseSoil == Soil([code |-> "X", cohesion |-> 1250])

FirstCaseEdits ==
    {<<<<"cohesion", 500>>>>, <<<<"cohesion", 500>>, <<"unit_weight", 1800>>>>}

FirstCaseAddSoil == AddSoil /\ last'.args = FirstCaseSoil

FirstCaseEditSoil ==
    EditSoil /\ last'.args.code \in {"Sand", "X"} /\ last'.args.kwargs \in FirstCaseEdits

FirstCaseAddHeadLine ==
    AddHeadLine /\ last'.args = [head_line_id |-> "h1", is_phreatic_line |-> TRUE]

FirstCaseAddReferenceLine ==
    /\ AddReferenceLine
    /\ last'.args = [reference_line_id |-> "r1", bottom_head_line_id |-> "h1",
                     top_head_line_id |-> "h1"]

(***************************************************************************)
(* The state after construction, and the specifications.                   *)
(***************************************************************************)
Init ==
    /\ results = [c \in ResultCollections |-> <<>>]
    /\ waternet = WaternetDefault
    /\ soils = SoilCollection
    /\ structure = DStabilityStructure
    /\ dfsoil = <<>>
    /\ second = <<>>
    /\ last = Call("init", <<>>, None, NoError)

\* The result routing of a Case.
NextRouter == GetResultSubstructure \/ AppendResult

SpecRouter == Init /\ [][NextRouter]_vars

\* The head lines and reference lines of a Waternet.
NextWaternet == AddHeadLine \/ AddReferenceLine

SpecWaternet == Init /\ [][NextWaternet]_vars

\* The soils of the shared SoilCollection.
NextSoils == AddSoil \/ GetSoil \/ EditSoil

SpecSoils == Init /\ [][NextSoils]_vars

\* The stages of a Case and their foreign keys.
NextStages == ParseCase \/ HasStage \/ HasResult \/ Validator

SpecStages == Init /\ [][NextStages]_vars

\* The condensed output of the results.
NextCondensation ==
    BishopGetSlipcircleOutput \/ UpliftVanGetSlipcircleOutput \/ SpencerGetSlipplaneOutput

SpecCondensation == Init /\ [][NextCondensation]_vars

\* The placement of the documents of a Case as results are appended to it.
NextPlacement == AppendResult \/ StructureName \/ StructureGroup

SpecPlacement == Init /\ [][NextPlacement]_vars

\* The Soil of D-Foundations.
NextDFoundationsSoil == ConstructSoil \/ SetSoilField

SpecDFoundationsSoil == Init /\ [][NextDFoundationsSoil]_vars

\* A first Case in use and a second Case constructed from defaults.
NextTwoCases ==
    \/ FirstCaseAddSoil
    \/ FirstCaseEditSoil
    \/ FirstCaseAddHeadLine
    \/ FirstCaseAddReferenceLine
    \/ ConstructCase

SpecTwoCases == Init /\ [][NextTwoCases]_vars

(***************************************************************************)
(* Properties of the result routing.                                       *)
(***************************************************************************)
\* The results held by the list a lookup hands out.
Held(analysis_type, calculation_type) ==
    Range(results[get_result_substructure(analysis_type, calculation_type).ret])

AppendedThrough(analysis_type, calculation_type) ==
    /\ last.op = "append_result"
    /\ last.args = <<analysis_type, calculation_type>>

LookedUp(analysis_type, calculation_type) ==
    /\ last.op = "get_result_substructure"
    /\ last.args = <<analysis_type, calculation_type>>

\* C1, as claimed: the lookups (SPENCER, PROBABILISTIC) and (SPENCER_GENETIC,
\* PROBABILISTIC) return two distinct collections: a result appended to the
\* one is not present in the other.
C1_SpencerProbabilisticDistinct ==
    /\ AppendedThrough("Spencer", "Probabilistic")
        => last.ret \notin Held("SpencerGenetic", "Probabilistic")
    /\ AppendedThrough("SpencerGenetic", "Probabilistic")
        => last.ret \notin Held("Spencer", "Probabilistic")

\* C1, amended: the lookups (SPENCER, PROBABILISTIC) and (SPENCER_GENETIC,
\* PROBABILISTIC) return the same collection, spencer_reliability_results: a
\* result appended through one lookup is present in the result of the other.
C1_SpencerProbabilisticShared ==
    /\ AppendedThrough("Spencer", "Probabilistic")
        => last.ret \in Held("SpencerGenetic", "Probabilistic")
    /\ AppendedThrough("SpencerGenetic", "Probabilistic")
        => last.ret \in Held("Spencer", "Probabilistic")
    /\ LookedUp("Spencer", "Probabilistic") \/ LookedUp("SpencerGenetic", "Probabilistic")
        => last.err = NoError /\ last.ret = "spencer_reliability_results"

C1_Witness ==
    /\ AppendedThrough("Spencer", "Probabilistic")
    /\ last.ret \in Range(results["spencer_reliability_results"])
    /\ last.ret \in Held("SpencerGenetic", "Probabilistic")

\* C2: the lookups (UPLIFT_VAN, PROBABILISTIC) and (UPLIFT_VAN_PARTICLE_SWARM,
\* PROBABILISTIC) return the same collection, the uplift-van reliability
\* collection: a result appended through one lookup is present in the result
\* of the other.
C2_UpliftVanProbabilisticShared ==
    /\ AppendedThrough("UpliftVan", "Probabilistic")
        => last.ret \in Held("UpliftVanParticleSwarm", "Probabilistic")
    /\ AppendedThrough("UpliftVanParticleSwarm", "Probabilistic")
        => last.ret \in Held("UpliftVan", "Probabilistic")
    /\ LookedUp("UpliftVan", "Probabilistic")
            \/ LookedUp("UpliftVanParticleSwarm", "Probabilistic")
        => last.err = NoError /\ last.ret = "uplift_van_reliability_results"

C2_Witness ==
    /\ AppendedThrough("UpliftVanParticleSwarm", "Probabilistic")
    /\ last.ret \in Range(results["uplift_van_reliability_results"])
    /\ Len(results["uplift_van_reliability_results"]) = 2

\* The reliability collection of the kind of analysis an analysis type is of.
ReliabilityCollection(analysis_type) ==
    CASE analysis_type \in {"Bishop", "BishopBruteForce"} -> "bishop_reliability_results"
      [] analysis_type \in {"Spencer", "SpencerGenetic"} -> "spencer_reliability_results"
      [] analysis_type \in {"UpliftVan", "UpliftVanParticleSwarm"} ->
            "uplift_van_reliability_results"

ReliabilityCollections ==
    {"bishop_reliability_results", "spencer_reliability_results",
     "uplift_van_reliability_results"}

\* C3: for each of the six analysis types and each of the four calculation
\* types, get_result_substructure returns, without error, one of the nine
\* result collections of the Case: the reliability collection of the analysis
\* type for PROBABILISTIC, and one and the same collection, no reliability
\* collection, for DESIGN, DETERMINISTIC and MEAN.
C3_RoutingTotal ==
    last.op = "get_result_substructure" =>
        LET analysis_type == last.args[1]
            calculation_type == last.args[2] IN
        /\ last.err = NoError
        /\ last.ret \in ResultCollections
        /\ calculation_type = "Probabilistic"
            => last.ret = ReliabilityCollection(analysis_type)
        /\ calculation_type # "Probabilistic"
            => /\ last.ret \notin ReliabilityCollections
               /\ \A c \in {"Design", "Deterministic", "Mean"} :
                    get_result_substructure(analysis_type, c) = [ret |-> last.ret, err |-> NoError]

C3_Witness ==
    /\ LookedUp("SpencerGenetic", "Mean")
    /\ last.ret = "spencer_genetic_algorithm_results"
    /\ TotalResults = MaxResults

(***************************************************************************)
(* Properties of the Waternet.                                             *)
(***************************************************************************)
HeadLineIdsOf(w) == {w.HeadLines[i].Id : i \in DOMAIN w.HeadLines}

\* C4: add_reference_line with a bottom or top head line id that is the Id of
\* no head line of the Waternet raises a lookup error that names a missing
\* id, and leaves ReferenceLines, HeadLines and PhreaticLineId as they were.
C4_UnknownHeadLineRejected ==
    [][(/\ last'.op = "add_reference_line"
        /\ \/ last'.args.bottom_head_line_id \notin HeadLineIdsOf(waternet)
           \/ last'.args.top_head_line_id \notin HeadLineIdsOf(waternet))
       => /\ last'.err.kind = "ValueError"
          /\ last'.err.key \in {last'.args.bottom_head_line_id, last'.args.top_head_line_id}
          /\ last'.err.key \notin HeadLineIdsOf(waternet)
          /\ waternet'.ReferenceLines = waternet.ReferenceLines
          /\ waternet'.HeadLines = waternet.HeadLines
          /\ waternet'.PhreaticLineId = waternet.PhreaticLineId]_vars

C4_Witness ==
    /\ last.op = "add_reference_line"
    /\ last.err = ValueError("Unknown headline id for top_head_line_id", "h3")
    /\ last.args.bottom_head_line_id \in HeadLineIdsOf(waternet)
    /\ Len(waternet.ReferenceLines) = 1
    /\ waternet.PhreaticLineId # None

\* C5: add_reference_line with a bottom and a top head line id that are both
\* Ids of head lines of the Waternet returns, and appends exactly one
\* reference line, carrying the given Id, BottomHeadLineId and TopHeadLineId,
\* at the end of ReferenceLines; the reference lines before it are unchanged.
C5_ReferenceLineAppended ==
    [][(/\ last'.op = "add_reference_line"
        /\ last'.args.bottom_head_line_id \in HeadLineIdsOf(waternet)
        /\ last'.args.top_head_line_id \in HeadLineIdsOf(waternet))
       => LET n == Len(waternet.ReferenceLines)
              after == waternet'.ReferenceLines IN
          /\ last'.err = NoError
          /\ Len(after) = n + 1
          /\ SubSeq(after, 1, n) = waternet.ReferenceLines
          /\ after[n + 1].Id = last'.args.reference_line_id
          /\ after[n + 1].BottomHeadLineId = last'.args.bottom_head_line_id
          /\ after[n + 1].TopHeadLineId = last'.args.top_head_line_id]_vars

C5_Witness ==
    /\ last.op = "add_reference_line"
    /\ last.err = NoError
    /\ Len(waternet.ReferenceLines) = 2
    /\ waternet.ReferenceLines[2].BottomHeadLineId = "h1"
    /\ waternet.ReferenceLines[2].TopHeadLineId = "h2"

\* C6: in every state reached from an empty Waternet by add_head_line and
\* add_reference_line calls, returning or raising, the TopHeadLineId and the
\* BottomHeadLineId of every reference line are Ids of head lines of the
\* Waternet, and so is PhreaticLineId when it is set.
C6_ReferencesResolve ==
    /\ \A i \in DOMAIN waternet.ReferenceLines :
        /\ waternet.ReferenceLines[i].TopHeadLineId \in HeadLineIdsOf(waternet)
        /\ waternet.ReferenceLines[i].BottomHeadLineId \in HeadLineIdsOf(waternet)
    /\ waternet.PhreaticLineId # None
        => waternet.PhreaticLineId \in HeadLineIdsOf(waternet)

C6_Witness ==
    /\ Len(waternet.ReferenceLines) = 2
    /\ waternet.PhreaticLineId = "h2"
    /\ last.op = "add_reference_line"
    /\ last.err # NoError

(***************************************************************************)
(* Properties of the SoilCollection.                                       *)
(***************************************************************************)
CodesOf(collection) == {collection.Soils[i].Code : i \in DOMAIN collection.Soils}

\* The last call added Soil(code=X, cohesion=c), its other fields unset.
AddedCodeAndCohesion ==
    /\ last.op = "add_soil"
    /\ \A k \in DOMAIN last.args :
        (last.args[k] # <<>>) <=> (k \in {"code", "cohesion"})

\* get_soil(X) returns a Soil of code X and cohesion c whose other fields are
\* the persisted defaults (color, which is not persisted, is unset).
RoundTrip(X, c) ==
    LET got == get_soil(soils, X) IN
    /\ got.err = NoError
    /\ got.ret.code = <<X>>
    /\ got.ret.cohesion = <<c>>
    /\ \A f \in Range(PersistableSoilFields) \ {"Code", "Cohesion"} :
        got.ret[camel_to_snake(f)] = <<PersistableSoil[f]>>
    /\ got.ret.color = <<>>

\* C7, as claimed: for any soil code X and cohesion c, add_soil(Soil(code=X,
\* cohesion=c)) followed by get_soil(X) returns a Soil whose cohesion is c
\* and whose other fields are the persisted defaults.
C7_RoundTripAnyCode ==
    AddedCodeAndCohesion => RoundTrip(last.args.code[1], last.args.cohesion[1])

\* C7, amended: for any soil code X that is not the Code of a soil already
\* in the SoilCollection and any cohesion c, add_soil(Soil(code=X,
\* cohesion=c)) followed by get_soil(X) returns a Soil whose cohesion is c
\* and whose other fields are the persisted defaults.
C7_RoundTripNewCode ==
    (/\ AddedCodeAndCohesion
     /\ \A i \in 1..(Len(soils.Soils) - 1) : soils.Soils[i].Code # last.args.code[1])
    => RoundTrip(last.args.code[1], last.args.cohesion[1])

C7_Witness ==
    /\ AddedCodeAndCohesion
    /\ last.args.code = <<"X">>
    /\ last.args.cohesion = <<1250>>
    /\ \A i \in 1..(Len(soils.Soils) - 1) : soils.Soils[i].Code # "X"
    /\ get_soil(soils, "X").ret.cohesion = <<1250>>

\* C8: add_soil appends exactly one record at the end of the SoilCollection;
\* each field of it is the value of the source soil's field that maps to it
\* when there is one and it is not None, and the persisted default otherwise;
\* the records already in the collection are unchanged.
C8_AddSoilMergesOverDefaults ==
    [][last'.op = "add_soil"
       => LET n == Len(soils.Soils)
              soil == last'.args
              after == soils'.Soils IN
          /\ last'.err = NoError
          /\ Len(after) = n + 1
          /\ SubSeq(after, 1, n) = soils.Soils
          /\ DOMAIN after[n + 1] = Range(PersistableSoilFields)
          /\ \A f \in Range(PersistableSoilFields) :
                LET sources == {k \in DOMAIN soil : snake_to_camel(k) = f /\ soil[k] # <<>>} IN
                IF sources = {}
                THEN after[n + 1][f] = PersistableSoil[f]
                ELSE \E k \in sources : after[n + 1][f] = soil[k][1]
          /\ last'.ret = after[n + 1]]_vars

C8_Witness ==
    /\ last.op = "add_soil"
    /\ last.args.color = <<"red">>
    /\ last.args.cohesion = <<1250>>
    /\ Len(soils.Soils) = Len(SoilCollection.Soils) + 2
    /\ soils.Soils[Len(soils.Soils)].Cohesion = 1250
    /\ soils.Soils[Len(soils.Soils)].StrengthIncreaseExponent = 100

NotFound(code) == ValueError("Soil code not found in the SoilCollection", code)

\* C9: get_soil(code) and edit_soil(code, updates) raise the not-found error,
\* carrying the code, exactly when no soil of the SoilCollection has that
\* Code, whatever the Ids are, and the SoilCollection is then unchanged.
C9_NotFoundIffNoSuchCode ==
    [][last'.op \in {"get_soil", "edit_soil"}
       => LET code == IF last'.op = "get_soil" THEN last'.args ELSE last'.args.code IN
          /\ (last'.err = NotFound(code)) <=> (code \notin CodesOf(soils))
          /\ last'.err.what = NotFound(code).what => last'.err.key = code
          /\ code \notin CodesOf(soils) => soils' = soils]_vars

C9_Witness ==
    /\ last.op = "edit_soil"
    /\ last.args.code = "9"
    /\ last.args.kwargs = <<<<"cohesion", 500>>>>
    /\ last.err = NotFound("9")
    /\ \E i \in DOMAIN soils.Soils : soils.Soils[i].Id = "9"
    /\ Len(soils.Soils) > Len(SoilCollection.Soils)

\* The names among the updates that map to no persisted soil field.
UnknownNames(kwargs) ==
    {kwargs[j][1] : j \in {j \in DOMAIN kwargs :
        snake_to_camel(kwargs[j][1]) \notin Range(PersistableSoilFields)}}

\* C10: edit_soil on the code of a soil of the collection raises an
\* unknown-field error when one of the update names maps to no persisted soil
\* field; when every update name maps to a persisted field it returns, the
\* named fields of the soil set to the given values, its other fields and
\* the other soils unchanged.
C10_EditSoilFields ==
    [][(last'.op = "edit_soil" /\ last'.args.code \in CodesOf(soils))
       => LET kwargs == last'.args.kwargs
              i == CHOOSE i \in DOMAIN soils.Soils :
                     /\ soils.Soils[i].Code = last'.args.code
                     /\ \A j \in 1..(i - 1) : soils.Soils[j].Code # last'.args.code IN
          /\ UnknownNames(kwargs) # {}
              => /\ last'.err.kind = "ValueError"
                 /\ last'.err.what = "Unknown soil parameter"
                 /\ last'.err.key \in UnknownNames(kwargs)
          /\ UnknownNames(kwargs) = {}
              => /\ last'.err = NoError
                 /\ DOMAIN soils'.Soils = DOMAIN soils.Soils
                 /\ \A j \in DOMAIN soils.Soils \ {i} : soils'.Soils[j] = soils.Soils[j]
                 /\ \A f \in Range(PersistableSoilFields) :
                        LET named == {u \in DOMAIN kwargs : snake_to_camel(kwargs[u][1]) = f} IN
                        IF named = {}
                        THEN soils'.Soils[i][f] = soils.Soils[i][f]
                        ELSE \E u \in named : soils'.Soils[i][f] = kwargs[u][2]
                 /\ last'.ret = soils'.Soils[i]]_vars

C10_Witness ==
    /\ last.op = "edit_soil"
    /\ last.args.code = "Sand"
    /\ last.args.kwargs = <<<<"cohesion", 500>>, <<"dilatancy", -100>>>>
    /\ last.err = NoError
    /\ \E i \in DOMAIN soils.Soils :
        /\ soils.Soils[i].Id = "9"
        /\ soils.Soils[i].Cohesion = 500
        /\ soils.Soils[i].Dilatancy = -100
        /\ soils.Soils[i].FrictionAngle = 3000

\* C11, as claimed: an edit_soil that raises, for an unknown code or an
\* unknown field name among several updates, leaves every record of the
\* SoilCollection with the field values it had before the call.
C11_FailedEditKeepsNothing ==
    [][(last'.op = "edit_soil" /\ last'.err # NoError) => soils' = soils]_vars

\* A failed edit_soil that has changed the soil it was called on.
C11_PartialEdit ==
    /\ last.op = "edit_soil"
    /\ last.args.kwargs = <<<<"cohesion", 500>>, <<"unit_weight", 1800>>>>
    /\ last.args.code = "Sand"
    /\ last.err = ValueError("Unknown soil parameter", "unit_weight")
    /\ \E i \in DOMAIN soils.Soils :
        soils.Soils[i].Code = "Sand" /\ soils.Soils[i].Cohesion = 500

\* C12, as claimed: in every state reached from a default Case by add_soil
\* calls, the Ids of the soils of the SoilCollection are pairwise distinct.
C12_SoilIdsDistinct ==
    \A i, j \in DOMAIN soils.Soils :
        i # j => soils.Soils[i].Id # soils.Soils[j].Id

\* Two soils added without an id: both hold the default Id.
C12_SharedDefaultId ==
    /\ last.op = "add_soil"
    /\ Len(soils.Soils) = Len(SoilCollection.Soils) + 2
    /\ soils.Soils[Len(soils.Soils)].Id = ""
    /\ soils.Soils[Len(soils.Soils) - 1].Id = ""

\* C13, as claimed: in every state reached by add_head_line and
\* add_reference_line calls, the Ids of the head lines of the Waternet are
\* pairwise distinct, and so are the Ids of its reference lines.
C13_LineIdsDistinct ==
    /\ \A i, j \in DOMAIN waternet.HeadLines :
        i # j => waternet.HeadLines[i].Id # waternet.HeadLines[j].Id
    /\ \A i, j \in DOMAIN waternet.ReferenceLines :
        i # j => waternet.ReferenceLines[i].Id # waternet.ReferenceLines[j].Id

\* Two head lines of one Id.
C13_SharedHeadLineId ==
    /\ last.op = "add_head_line"
    /\ Len(waternet.HeadLines) = 2
    /\ waternet.HeadLines[1].Id = waternet.HeadLines[2].Id

\* The fields of PersistableSoil declared confloat(ge=0).
NonNegativeSoilFields ==
    {"Cohesion", "Dilatancy", "FrictionAngle", "ShearStrengthRatio",
     "StrengthIncreaseExponent", "VolumetricWeightAbovePhreaticLevel",
     "VolumetricWeightBelowPhreaticLevel"}

\* C14, as claimed: in every state reached by add_soil and edit_soil calls,
\* each persisted soil has Cohesion, Dilatancy, FrictionAngle,
\* ShearStrengthRatio, StrengthIncreaseExponent and both volumetric weights
\* >= 0, and a call that supplies a negative value for one of them raises.
C14_SoilRangesHold ==
    /\ \A i \in DOMAIN soils.Soils : \A f \in NonNegativeSoilFields :
        soils.Soils[i][f] >= 0
    /\ (last.op = "edit_soil" /\ last.args.code \in CodesOf(soils)
        /\ \E u \in DOMAIN last.args.kwargs :
            /\ snake_to_camel(last.args.kwargs[u][1]) \in NonNegativeSoilFields
            /\ last.args.kwargs[u][2] < 0)
        => last.err # NoError
    /\ (last.op = "add_soil" /\ last.args.cohesion # <<>> /\ last.args.cohesion[1] < 0)
        => last.err # NoError

\* An edit_soil that stored a negative dilatancy and returned.
C14_NegativeStored ==
    /\ last.op = "edit_soil"
    /\ last.args.kwargs = <<<<"dilatancy", -100>>>>
    /\ last.err = NoError
    /\ last.ret.Dilatancy = -100
    /\ \E i \in DOMAIN soils.Soils : soils.Soils[i].Dilatancy = -100

(***************************************************************************)
(* Stages, the default Case and the validator.                             *)
(***************************************************************************)
\* C15: for every valid stage index i (0 <= i < number of stages),
\* has_result(i) is false when stages[i].ResultId is null and true when it
\* is not.
C15_HasResultIffResultId ==
    (last.op = "has_result" /\ last.args[1] >= 0 /\ last.args[1] < Len(structure.stages)) =>
        last.ret = (structure.stages[last.args[1] + 1].ResultId # None)

\* has_result(1) is true on a Case of two stages of which only the second
\* has a ResultId.
C15_Witness ==
    /\ last.op = "has_result"
    /\ last.args = <<1>>
    /\ Len(structure.stages) = 2
    /\ structure.stages[1].ResultId = None
    /\ structure.stages[2].ResultId # None
    /\ last.ret = TRUE

\* A Case as constructed has one stage, as many substructures in every
\* per-stage list as stages, no result, and the given number of soils.
ConstructedWithSoils(n) ==
    last.op = "init" =>
        /\ Len(structure.stages) = 1
        /\ \A c \in Range(PerStageLists) : Len(structure[c]) = Len(structure.stages)
        /\ \A c \in ResultCollections : results[c] = <<>>
        /\ Len(soils.Soils) = n

\* C16, as claimed: a Case constructed from defaults has exactly one stage,
\* exactly one instance of each per-stage substructure, empty result
\* collections, and a soil catalog of exactly eleven soils.
C16_DefaultCaseElevenSoils == ConstructedWithSoils(11)

\* C16, amended: a Case constructed from defaults has exactly one stage,
\* exactly one instance of each per-stage substructure, empty result
\* collections, and a soil catalog of exactly ten soils.
C16_DefaultCaseTenSoils == ConstructedWithSoils(10)

\* The Case as constructed: its one Reinforcements has Id "1", its soils
\* run from Embankment dry (Id "2") to Sand with clay (Id "11").
C16_Witness ==
    /\ last.op = "init"
    /\ structure.reinforcements = <<"1">>
    /\ structure.stages = <<Stage>>
    /\ soils.Soils[1].Id = "2"
    /\ soils.Soils[Len(soils.Soils)].Id = "11"

\* The number of findings of a report that name the stage index i and the
\* field.
FindingsFor(report, i, field) ==
    Cardinality({n \in DOMAIN report : report[n].stage = i /\ report[n].field = field})

\* C17: for every Stage and every foreign key of it, the report of the
\* validator has exactly one finding naming that stage index and field
\* when the field is set to an identifier absent from the target
\* collection, and none for that field when it refers to an existing Id.
C17_OneFindingPerDanglingKey ==
    last.op = "validator" =>
        \A k \in DOMAIN structure.stages, field \in Range(StageForeignKeys) :
            LET value == structure.stages[k][field]
                present == target_ids(structure, results, field) IN
            /\ (value # None /\ value \notin present) =>
                   /\ FindingsFor(last.ret, k - 1, field) = 1
                   /\ \E n \in DOMAIN last.ret : last.ret[n] = Finding(k - 1, field, value)
            /\ value \in present => FindingsFor(last.ret, k - 1, field) = 0

\* The validator has run on a Case of two stages: every foreign key of the
\* first is absent, every one of the second refers to an existing Id.
C17_Witness ==
    /\ last.op = "validator"
    /\ Len(structure.stages) = 2
    /\ structure.stages[1] = [field \in Range(StageForeignKeys) |-> AbsentId]
    /\ structure.stages[2] = ResolvedStage(2)
    /\ results.bishop_results = <<1>>
    /\ Len(last.ret) = Len(StageForeignKeys)
    /\ \A n \in DOMAIN last.ret : last.ret[n].stage = 0

CondensationError ==
    last.err = ValueError("Slipcircle not available for " \o last.args[1], last.args[2].Id)

\* C19: for each Bishop kind, get_slipcircle_output fails with a
\* condensation error when Circle is unset, and when Circle is set with
\* center (cx, cz) and radius r it returns the summary x = cx, z = cz,
\* radius = r.
C19_BishopSlipcircle ==
    (last.op = "get_slipcircle_output" /\ last.args[1] \in BishopKinds) =>
        LET Circle == last.args[2].Circle IN
        /\ Circle = <<>> => CondensationError
        /\ (/\ Circle # <<>>
            /\ Circle[1].Center # <<>>
            /\ Circle[1].Center[1].X # <<>>
            /\ Circle[1].Center[1].Z # <<>>
            /\ Circle[1].Radius # <<>>) =>
               /\ last.err = NoError
               /\ last.ret = [x |-> Circle[1].Center[1].X[1],
                              z |-> Circle[1].Center[1].Z[1],
                              radius |-> Circle[1].Radius[1]]

\* A BishopReliabilityResult of center (1.0, 2.0) and radius 3.0 gave the
\* summary x = 1.0, z = 2.0, radius = 3.0.
C19_Witness ==
    /\ last.op = "get_slipcircle_output"
    /\ last.args[1] = "BishopReliabilityResult"
    /\ last.args[2].Circle = <<[Center |-> <<[X |-> <<100>>, Z |-> <<200>>]>>, Radius |-> <<300>>]>>
    /\ last.err = NoError
    /\ last.ret = [x |-> 100, z |-> 200, radius |-> 300]

\* The summary of the stored values of an uplift-van result whose centers
\* and tangent line are set, coordinates included.
UpliftVanSummary(self) ==
    [x_left |-> self.LeftCenter[1].X[1], z_left |-> self.LeftCenter[1].Z[1],
     x_right |-> self.RightCenter[1].X[1], z_right |-> self.RightCenter[1].Z[1],
     z_tangent |-> self.TangentLine[1]]

CoordinatesSet(self) ==
    /\ self.LeftCenter[1].X # <<>>
    /\ self.LeftCenter[1].Z # <<>>
    /\ self.RightCenter[1].X # <<>>
    /\ self.RightCenter[1].Z # <<>>

\* C20, as claimed: for each uplift-van kind, get_slipcircle_output fails
\* with a condensation error when LeftCenter or RightCenter is absent, and
\* when LeftCenter, RightCenter and TangentLine are all set it returns the
\* summary of the stored values.
C20_UpliftVanSlipcircleWhenSet ==
    (last.op = "get_slipcircle_output" /\ last.args[1] \in UpliftVanKinds) =>
        LET self == last.args[2] IN
        /\ (self.LeftCenter = <<>> \/ self.RightCenter = <<>>) => CondensationError
        /\ (self.LeftCenter # <<>> /\ self.RightCenter # <<>> /\ self.TangentLine # <<>>) =>
               /\ last.err = NoError
               /\ last.ret = UpliftVanSummary(self)

\* C20, amended: for each uplift-van kind, get_slipcircle_output fails
\* with a condensation error when LeftCenter or RightCenter is absent, or
\* a coordinate of either or TangentLine is unset; when LeftCenter and
\* RightCenter are set with both their coordinates and TangentLine is set,
\* it returns the summary of the stored values.
C20_UpliftVanSlipcircleWhenComplete ==
    (last.op = "get_slipcircle_output" /\ last.args[1] \in UpliftVanKinds) =>
        LET self == last.args[2]
            complete == /\ self.LeftCenter # <<>>
                        /\ self.RightCenter # <<>>
                        /\ self.TangentLine # <<>>
                        /\ CoordinatesSet(self) IN
        /\ ~complete => CondensationError
        /\ complete => (last.err = NoError /\ last.ret = UpliftVanSummary(self))

\* An UpliftVanReliabilityResult with all five values gave their summary.
C20_Witness ==
    /\ last.op = "get_slipcircle_output"
    /\ last.args[1] = "UpliftVanReliabilityResult"
    /\ last.args[2].LeftCenter = <<[X |-> <<100>>, Z |-> <<200>>]>>
    /\ last.args[2].RightCenter = <<[X |-> <<300>>, Z |-> <<400>>]>>
    /\ last.args[2].TangentLine = <<500>>
    /\ last.err = NoError
    /\ last.ret = [x_left |-> 100, z_left |-> 200, x_right |-> 300, z_right |-> 400,
                   z_tangent |-> 500]

\* The call failed with the error of get_slipplane_output, which names the
\* class and the Id of the result.
SlipPlaneError ==
    last.err = ValueError("Slip plane not available for " \o last.args[1], last.args[2].Id)

\* Every entry of the slip plane is a point.
AllPoints(plane) == \A i \in DOMAIN plane : plane[i] # <<>>

\* Every entry of the slip plane is a point with both its coordinates.
AllComplete(plane) ==
    \A i \in DOMAIN plane :
        plane[i] # <<>> /\ plane[i][1].X # <<>> /\ plane[i][1].Z # <<>>

\* The call returned the polyline of the slip plane: as many points, in the
\* same order, each with the stored X and Z.
PolylineOf(plane) ==
    /\ last.err = NoError
    /\ Len(last.ret.slipplane) = Len(plane)
    /\ \A i \in DOMAIN plane :
           /\ last.ret.slipplane[i].x = plane[i][1].X[1]
           /\ last.ret.slipplane[i].z = plane[i][1].Z[1]

C26_OnlyCondensationErrors ==
    /\ last.op = "get_slipcircle_output" => (last.err = NoError \/ CondensationError)
    /\ last.op = "get_slipplane_output" => (last.err = NoError \/ SlipPlaneError)

\* get_slipplane_output on a SpencerResult whose SlipPlane is [None] left
\* with AttributeError.
C26_AttributeErrorEscapes ==
    /\ last.op = "get_slipplane_output"
    /\ last.args[1] = "SpencerResult"
    /\ last.args[2].SlipPlane = << << <<>> >> >>
    /\ last.err = AttributeError

(***************************************************************************)
(* The placement of a document.                                            *)
(***************************************************************************)
\* The analysis kind of a result class: its lower-cased name without the
\* closing "result".
AnalysisKind(cls) == lower(SubSeq(Letters[cls], 1, Len(Letters[cls]) - 6))

\* C22: structure_name() is the lower-cased declared name unless the kind
\* overrides it, and structure_group() equals structure_name() unless the
\* kind overrides it; Stage reports name "stage" with group "stages",
\* Geometry name "geometry" with group "geometries", and each of the nine
\* result kinds a group "results/<analysis-kind>".
C22_NameAndGroup ==
    /\ last.op = "structure_name" =>
           LET cls == last.args[1] IN
           /\ cls \notin DOMAIN structure_name_overrides => last.ret = lower(Letters[cls])
           /\ cls = "Stage" => last.ret = "stage"
           /\ cls = "Geometry" => last.ret = "geometry"
    /\ last.op = "structure_group" =>
           LET cls == last.args[1] IN
           /\ cls \notin DOMAIN structure_group_overrides => last.ret = structure_name(cls)
           /\ cls = "Stage" => last.ret = "stages"
           /\ cls = "Geometry" => last.ret = "geometries"
           /\ cls \in ResultKinds => last.ret = "results/" \o AnalysisKind(cls)

\* structure_name of a kind that keeps the default: CalculationSettings.
C22_Witness ==
    /\ last.op = "structure_name"
    /\ last.args = <<"CalculationSettings">>
    /\ last.ret = "calculationsettings"

\* C29: the pairs (structure_group(), structure_name()) of two distinct
\* kinds differ, and the groups of the nine result kinds are pairwise
\* distinct.
C29_PlacementDistinct ==
    last.op = "structure_group" =>
        LET cls == last.args[1] IN
        \A other \in SubStructures \ {cls} :
            /\ <<last.ret, structure_name(cls)>> #
                   <<structure_group(other), structure_name(other)>>
            /\ (cls \in ResultKinds /\ other \in ResultKinds) =>
                   last.ret # structure_group(other)

\* structure_group of a result kind, with a result in the Case.
C29_Witness ==
    /\ last.op = "structure_group"
    /\ last.args = <<"SpencerResult">>
    /\ last.ret = "results/spencer"
    /\ TotalResults > 0

(***************************************************************************)
(* The Soil of D-Foundations.                                              *)
(***************************************************************************)
\* The value lies outside the range claimed for the field: [0, 89] for
\* soilphi, [0, 1] for soilminvoidratio and soilmaxvoidratio.
OutOfClaimedRange(field, value) ==
    \/ field = "soilphi" /\ (value < 0 \/ value > 8900)
    \/ field \in {"soilminvoidratio", "soilmaxvoidratio"} /\ (value < 0 \/ value > 100)

ClaimedRangeFields == {"soilphi", "soilminvoidratio", "soilmaxvoidratio"}

\* The Soil holds no out-of-range value, and a construction with one fails
\* with a validation error on a field.
SoilInRange ==
    /\ dfsoil # <<>> =>
           \A field \in ClaimedRangeFields : ~OutOfClaimedRange(field, dfsoil[1][field])
    /\ (/\ last.op = "Soil"
        /\ \E field \in ClaimedRangeFields \cap DOMAIN last.args[1] :
               OutOfClaimedRange(field, last.args[1][field])) =>
           /\ last.err.kind = "ValidationError"
           /\ last.err.key \in ClaimedRangeFields
           /\ OutOfClaimedRange(last.err.key, last.args[1][last.err.key])

\* An assignment of an out-of-range value fails with a validation error on
\* that field and leaves the Soil as it was.
AssignmentInRange ==
    (last'.op = "setattr" /\ OutOfClaimedRange(last'.args[1], last'.args[2])) =>
        /\ last'.err.kind = "ValidationError"
        /\ last'.err.key = last'.args[1]
        /\ dfsoil' = dfsoil

\* C23: a dfoundations Soil never holds an out-of-range value:
\* constructing one with soilphi outside [0, 89] or a void ratio outside
\* [0, 1] fails with a field validation error, and assigning such a value
\* to an existing Soil fails and leaves the field at its previous value.
C23_SoilNeverOutOfRange == []SoilInRange /\ [][AssignmentInRange]_vars

\* soilphi = 89.01 was assigned to a Soil of soilphi 30.0: the assignment
\* failed and soilphi is 30.0.
C23_Witness ==
    /\ last.op = "setattr"
    /\ last.args = <<"soilphi", 8901>>
    /\ last.err = FieldValidationError("soilphi", "le")
    /\ dfsoil # <<>>
    /\ dfsoil[1].soilphi = 3000

C25_HasStageBoundsCheck ==
    /\ last.op = "has_stage" =>
           last.ret = (0 <= last.args[1] /\ last.args[1] < Len(structure.stages))
    /\ (last.op = "has_result" /\ ~(0 <= last.args[1] /\ last.args[1] < Len(structure.stages))) =>
           last.ret = FALSE

\* has_stage(-1) returned true on a Case of one stage.
C25_NegativeIndexAccepted ==
    /\ last.op = "has_stage"
    /\ last.args = <<-1>>
    /\ Len(structure.stages) = 1
    /\ last.ret = TRUE

(***************************************************************************)
(* The frame of add_head_line and of get_result_substructure.              *)
(***************************************************************************)
\* C27: add_head_line appends exactly one head line with the given Id at
\* the end of HeadLines and leaves the head lines before it and all
\* ReferenceLines unchanged; PhreaticLineId becomes the Id of the new head
\* line when is_phreatic_line is true and keeps its value when it is false.
C27_AddHeadLineFrame ==
    [][last'.op = "add_head_line" =>
          LET n == Len(waternet.HeadLines) IN
          /\ Len(waternet'.HeadLines) = n + 1
          /\ waternet'.HeadLines[n + 1].Id = last'.args.head_line_id
          /\ SubSeq(waternet'.HeadLines, 1, n) = waternet.HeadLines
          /\ waternet'.ReferenceLines = waternet.ReferenceLines
          /\ waternet'.PhreaticLineId =
                 IF last'.args.is_phreatic_line
                 THEN last'.args.head_line_id
                 ELSE waternet.PhreaticLineId]_vars

\* A second head line was added, not as the phreatic line, after a first
\* that is the phreatic line and a reference line.
C27_Witness ==
    /\ last.op = "add_head_line"
    /\ last.args = [head_line_id |-> "h2", is_phreatic_line |-> FALSE]
    /\ Len(waternet.HeadLines) = 2
    /\ waternet.HeadLines[1].Id = "h1"
    /\ waternet.PhreaticLineId = "h1"
    /\ Len(waternet.ReferenceLines) = 1

\* The lookups that route to the collection the lookup (a, c) returns.
RoutedLike(a, c) ==
    {ac \in AnalysisType \X CalculationType :
        get_result_substructure(ac[1], ac[2]) = get_result_substructure(a, c)}

\* C28: get_result_substructure is a pure lookup that hands out the
\* Case's own collection: a call changes no part of the Case, a call with
\* the same arguments returns the same collection, and an entry appended
\* through the returned reference is in the result of every later lookup
\* that routes to that collection.
C28_PureLookup ==
    [][/\ last'.op = "get_result_substructure" =>
             /\ results' = results
             /\ waternet' = waternet
             /\ soils' = soils
             /\ structure' = structure
             /\ last'.ret = get_result_substructure(last'.args[1], last'.args[2]).ret
             /\ last'.err = NoError =>
                    \A ac \in RoutedLike(last'.args[1], last'.args[2]) :
                        Range(results'[last'.ret]) = Range(results[get_result_substructure(ac[1], ac[2]).ret])
       /\ last'.op = "append_result" =>
             \A ac \in RoutedLike(last'.args[1], last'.args[2]) :
                 last'.ret \in Range(results'[get_result_substructure(ac[1], ac[2]).ret])
       /\ \A c \in ResultCollections : Range(results[c]) \subseteq Range(results'[c])]_vars

\* A lookup (UpliftVanParticleSwarm, Probabilistic) after a result was
\* appended through (UpliftVan, Probabilistic): the list holds the result.
C28_Witness ==
    /\ last.op = "get_result_substructure"
    /\ last.args = <<"UpliftVanParticleSwarm", "Probabilistic">>
    /\ last.err = NoError
    /\ results[last.ret] # <<>>

====
